---- MODULE Spec2Model ----
(***************************************************************************)
(* Model of the ralph-monitor ingestion pipeline: the JSONL record parser, *)
(* the SQLite persistence gateway, the continuous-watch ingestion service  *)
(* and the one-shot ingestion program.                                     *)
(*                                                                         *)
(* Text values (message text, shell commands, directory slugs) are         *)
(* sequences of one-character strings.  Identifiers and timestamps are     *)
(* strings.  A JavaScript undefined is the string Undefined.               *)
(***************************************************************************)
EXTENDS Integers, Sequences, FiniteSets, TLC

\* ------------------------------------------------------------------ bounds
\* most lines a log file ever holds
MaxLines == 2
\* most writes (appends, truncations) the log writers make
MaxWrites == 2
\* most times five minutes pass without a write
MaxAges == 1
\* most times the watch process is restarted
MaxRestarts == 1
\* most one-shot runs
MaxRuns == 2
\* one-shot runs beside a running watch service
MaxConcRuns == 1

\* --------------------------------------------------------- JavaScript values
Undefined == "undefined"

\* the operands JavaScript's || and ! treat as false, among strings
Falsy(x) == x \in {Undefined, ""}

\* a || b || c on strings
Or3(a, b, c) == IF ~Falsy(a) THEN a ELSE IF ~Falsy(b) THEN b ELSE c

\* String.prototype.substring(0, n) on a text
Substring(s, n) == IF Len(s) > n THEN SubSeq(s, 1, n) ELSE s

Ellipsis == <<".", ".", ".">>

\* JSON.stringify: an injective serialisation of a value
JSONstringify(v) == <<"json", v>>

\* ------------------------------------------------------------ record parser
MaxPreview == 500
MaxCommandPreview == 200
MaxPromptPreview == 100

NoContent == [kind |-> "none", str |-> <<>>, items |-> <<>>]
StrContent(s) == [kind |-> "str", str |-> s, items |-> <<>>]
ArrContent(items) == [kind |-> "arr", str |-> <<>>, items |-> items]
\* a content that is neither a string nor an array: a number other than 0, an object
OtherContent == [kind |-> "other", str |-> <<>>, items |-> <<>>]

\* a tool input: the fields it has (has), their text, and its JSON serialisation
NoInput == [has |-> {}, nonString |-> {}, command |-> <<>>, file_path |-> <<>>, pattern |-> <<>>,
            path |-> <<>>, description |-> <<>>, prompt |-> <<>>, json |-> <<"{", "}">>]
BashInput(cmd) == [NoInput EXCEPT !.has = {"command"}, !.command = cmd,
                   !.json = <<"{", "c", ":">> \o cmd \o <<"}">>]
\* a tool input whose command is a number
NumberCommandInput == [NoInput EXCEPT !.has = {"command"}, !.nonString = {"command"},
                       !.json = <<"{", "c", ":", "5", "}">>]
TextItem(t) == [type |-> "text", text |-> t, id |-> Undefined, name |-> Undefined,
                input |-> NoInput]
ToolUse(id, name, input) == [type |-> "tool_use", text |-> <<>>, id |-> id,
                             name |-> name, input |-> input]
\* a null among the items of an array content
NullItem == [type |-> "null", text |-> <<>>, id |-> Undefined, name |-> Undefined,
             input |-> NoInput]

RECURSIVE JoinLines(_)
JoinLines(parts) ==
  IF parts = <<>> THEN <<>>
  ELSE IF Len(parts) = 1 THEN parts[1]
  ELSE parts[1] \o <<"\n">> \o JoinLines(Tail(parts))

\* the text parts of an array content: items of type text with a non-empty text
RECURSIVE TextParts(_)
TextParts(items) ==
  IF items = <<>> THEN <<>>
  ELSE (IF items[1].type = "text" /\ items[1].text # <<>> THEN <<items[1].text>> ELSE <<>>)
       \o TextParts(Tail(items))

\* a cut that keeps the preview, marker included, within maxLength
TruncateWithin(text, maxLength) ==
  IF Len(text) > maxLength THEN SubSeq(text, 1, maxLength - Len(Ellipsis)) \o Ellipsis ELSE text

Truncate(text, maxLength) ==
  IF Len(text) > maxLength THEN SubSeq(text, 1, maxLength) \o Ellipsis ELSE text

extractTextPreview(content, maxLength) ==
  IF content.kind = "str" THEN Truncate(content.str, maxLength)
  ELSE Truncate(JoinLines(TextParts(content.items)), maxLength)

\* extractTextPreview raises a TypeError: `for (const item of content)` on a value
\* that is not iterable, or item.type on a null item
extractTextPreviewThrows(content) ==
  \/ content.kind \notin {"str", "arr"}
  \/ content.kind = "arr" /\ \E i \in 1..Len(content.items) : content.items[i].type = "null"

UndefinedText == <<"u", "n", "d", "e", "f", "i", "n", "e", "d">>

\* `${input.field}` in a template literal
Render(input, field) == IF field \in input.has THEN input[field] ELSE UndefinedText

\* input.field || fallback
FieldOr(input, field, fallback) ==
  IF field \in input.has /\ input[field] # <<>> THEN input[field] ELSE fallback

\* a preview that cuts every tool's text at the length of a message preview
InputPreviewCutAtMaxPreview(name, input) ==
  IF name = "Bash" THEN Substring(input.command, MaxPreview)
  ELSE Substring(input.json, MaxPreview)

\* the per-tool human-readable preview
InputPreview(name, input) ==
  CASE name = "Bash" ->
         (IF "command" \in input.has THEN Substring(input.command, MaxCommandPreview)
          ELSE <<>>)
    [] name = "Read" -> <<"R", "e", "a", "d", ":", " ">> \o Render(input, "file_path")
    [] name = "Write" -> <<"W", "r", "i", "t", "e", ":", " ">> \o Render(input, "file_path")
    [] name = "Edit" -> <<"E", "d", "i", "t", ":", " ">> \o Render(input, "file_path")
    [] name = "Grep" -> <<"G", "r", "e", "p", ":", " ", "\"">> \o Render(input, "pattern")
                        \o <<"\"", " ", "i", "n", " ">> \o FieldOr(input, "path", <<".">>)
    [] name = "Glob" -> <<"G", "l", "o", "b", ":", " ">> \o Render(input, "pattern")
    [] name = "Task" -> <<"T", "a", "s", "k", ":", " ">>
                        \o FieldOr(input, "description",
                                   IF "prompt" \in input.has
                                     THEN Substring(input.prompt, MaxPromptPreview)
                                     ELSE <<>>)
    [] OTHER -> Substring(input.json, MaxCommandPreview)

\* a tool call built for every tool_use segment, with or without id and name
RECURSIVE ToolCallsOfAnySegment(_)
ToolCallsOfAnySegment(items) ==
  IF items = <<>> THEN <<>>
  ELSE (IF items[1].type = "tool_use"
          THEN <<[id |-> items[1].id, name |-> items[1].name, input |-> items[1].input,
                  inputPreview |-> InputPreview(items[1].name, items[1].input)]>>
          ELSE <<>>)
       \o ToolCallsOfAnySegment(Tail(items))

RECURSIVE ToolCallsOf(_)
ToolCallsOf(items) ==
  IF items = <<>> THEN <<>>
  ELSE (IF items[1].type = "tool_use" /\ ~Falsy(items[1].id) /\ ~Falsy(items[1].name)
          THEN <<[id |-> items[1].id, name |-> items[1].name, input |-> items[1].input,
                  inputPreview |-> InputPreview(items[1].name, items[1].input)]>>
          ELSE <<>>)
       \o ToolCallsOf(Tail(items))

extractToolCalls(content) ==
  IF content.kind = "str" THEN <<>> ELSE ToolCallsOf(content.items)

\* extractToolCalls raises a TypeError: .substring on a Bash command that is
\* not a string
extractToolCallsThrows(content) ==
  /\ content.kind = "arr"
  /\ \E i \in 1..Len(content.items) :
       LET item == content.items[i] IN
       /\ item.type = "tool_use" /\ ~Falsy(item.id) /\ ~Falsy(item.name)
       /\ item.name = "Bash"
       /\ "command" \in item.input.nonString

\* a line of a log file: json is FALSE for text that JSON.parse rejects
BadLine == [json |-> FALSE, blank |-> FALSE, type |-> Undefined, uuid |-> Undefined,
            parentUuid |-> Undefined, timestamp |-> Undefined, hasMessage |-> FALSE,
            msgId |-> Undefined, role |-> Undefined, model |-> Undefined,
            stop_reason |-> Undefined, input_tokens |-> Undefined,
            output_tokens |-> Undefined, content |-> NoContent]

\* a line that is empty or whitespace only
BlankLine == [BadLine EXCEPT !.blank = TRUE]

Entry(type, uuid, ts, msgId, content) ==
  [json |-> TRUE, blank |-> FALSE, type |-> type, uuid |-> uuid, parentUuid |-> Undefined,
   timestamp |-> ts, hasMessage |-> TRUE, msgId |-> msgId, role |-> type,
   model |-> Undefined, stop_reason |-> Undefined, input_tokens |-> Undefined,
   output_tokens |-> Undefined, content |-> content]

\* parseJsonlLine: the entry, or null (FALSE here) when JSON.parse throws
parseJsonlLine(line) == line.json

\* message.content || (entry.type === 'user' ? '' : [])
ContentOrDefault(entry) ==
  IF entry.content.kind = "none" \/ (entry.content.kind = "str" /\ entry.content.str = <<>>)
    THEN (IF entry.type = "user" THEN StrContent(<<>>) ELSE ArrContent(<<>>))
    ELSE entry.content

\* parseEntry returns null unless the entry is a user/assistant entry with a message
parseEntryIsNull(entry) ==
  ~(entry.type \in {"user", "assistant"}) \/ ~entry.hasMessage

\* parseEntry raises instead of returning
parseEntryThrows(entry) ==
  /\ ~parseEntryIsNull(entry)
  /\ \/ extractTextPreviewThrows(ContentOrDefault(entry))
     \/ entry.type = "assistant" /\ extractToolCallsThrows(ContentOrDefault(entry))

\* the payload's id tried before the entry's own
MessageIdPayloadFirst(entry, sessionId) ==
  Or3(entry.msgId, entry.uuid, sessionId \o "-" \o entry.timestamp)

MessageId(entry, sessionId) ==
  Or3(entry.uuid, entry.msgId, sessionId \o "-" \o entry.timestamp)

parseEntry(entry, sessionId, now) ==
  LET content == ContentOrDefault(entry) IN
  [id |-> MessageId(entry, sessionId),
   sessionId |-> sessionId,
   parentId |-> entry.parentUuid,
   type |-> entry.type,
   timestamp |-> IF Falsy(entry.timestamp) THEN now ELSE entry.timestamp,
   role |-> entry.role,
   model |-> entry.model,
   contentPreview |-> extractTextPreview(content, MaxPreview),
   contentFull |-> JSONstringify(content),
   inputTokens |-> entry.input_tokens,
   outputTokens |-> entry.output_tokens,
   stopReason |-> entry.stop_reason,
   toolCalls |-> IF entry.type = "assistant" THEN extractToolCalls(content) ELSE <<>>]

\* a log file path: projects/<slug>/<stem>.jsonl; hex36 says whether the stem is the
\* 36-character identifier the pattern /([a-f0-9-]{36})\.jsonl$/ matches; inProjects
\* says whether the path holds the directory name projects/ at all
FilePath(slug, stem, hex36) ==
  [slug |-> slug, stem |-> stem, hex36 |-> hex36, inProjects |-> TRUE]

\* a path <slug>/<stem>.jsonl that names no projects directory
PathOutside(slug, stem, hex36) == [FilePath(slug, stem, hex36) EXCEPT !.inProjects = FALSE]

\* extractSessionId applied to the file's name (whole = FALSE) or to its whole path
extractSessionId(p, whole) ==
  IF p.hex36 THEN p.stem
  ELSE IF whole THEN "projects/" \o p.stem \o ".jsonl"
  ELSE p.stem \o ".jsonl"

\* String.replace(/-/g, '/')
RECURSIVE DashesToSlashes(_)
DashesToSlashes(t) ==
  IF t = <<>> THEN <<>>
  ELSE <<IF t[1] = "-" THEN "/" ELSE t[1]>> \o DashesToSlashes(Tail(t))

\* String.replace(/^\//, '')
StripLeadingSlash(t) == IF t # <<>> /\ t[1] = "/" THEN Tail(t) ELSE t

UnknownProject == <<"u", "n", "k", "n", "o", "w", "n">>

\* filePath.match(/projects\/([^/]+)\//): the pattern asks for a slug of one unit at least
MatchesProjects(p) == p.inProjects /\ p.slug # <<>>

extractProjectPath(p) ==
  IF MatchesProjects(p) THEN <<"/">> \o StripLeadingSlash(DashesToSlashes(p.slug))
  ELSE UnknownProject

\* ------------------------------------------------------ persistence gateway
\* The store: three tables, each a set of rows.  err is "ok" until a statement
\* raises; "fk" is a foreign-key violation.
EmptyDb == [sessions |-> {}, messages |-> {}, tool_calls |-> {}, err |-> "ok"]

HasId(table, id) == \E r \in table : r.id = id

\* INSERT OR REPLACE INTO sessions: the whole row is written anew
upsertSessionReplace(db, s) ==
  [db EXCEPT !.sessions = {r \in @ : r.id # s.id} \cup {s}]

\* INSERT ... ON CONFLICT(id) DO UPDATE SET last_activity, is_active,
\* total_messages, total_tool_calls, metadata
upsertSession(db, s) ==
  IF HasId(db.sessions, s.id)
    THEN [db EXCEPT !.sessions =
            {IF r.id = s.id
               THEN [r EXCEPT !.last_activity = s.last_activity,
                              !.is_active = s.is_active,
                              !.total_messages = s.total_messages,
                              !.total_tool_calls = s.total_tool_calls,
                              !.metadata = s.metadata]
               ELSE r : r \in db.sessions}]
    ELSE [db EXCEPT !.sessions = @ \cup {s}]

\* INSERT INTO messages: a duplicate id raises a constraint error
insertMessagePlain(db, m) ==
  IF HasId(db.messages, m.id) THEN [db EXCEPT !.err = "unique"]
  ELSE IF ~HasId(db.sessions, m.session_id) THEN [db EXCEPT !.err = "fk"]
  ELSE [db EXCEPT !.messages = @ \cup {m}]

\* INSERT OR REPLACE INTO messages
insertMessageOrReplace(db, m) ==
  IF ~HasId(db.sessions, m.session_id) THEN [db EXCEPT !.err = "fk"]
  ELSE [db EXCEPT !.messages = {r \in @ : r.id # m.id} \cup {m}]

\* INSERT OR IGNORE INTO messages, with FOREIGN KEY (session_id) enforced
insertMessage(db, m) ==
  IF HasId(db.messages, m.id) THEN db
  ELSE IF ~HasId(db.sessions, m.session_id) THEN [db EXCEPT !.err = "fk"]
  ELSE [db EXCEPT !.messages = @ \cup {m}]

\* status: toolCall.status ?? 'pending': the row insertToolCall binds
StatusBound(t) == [t EXCEPT !.status = IF @ = Undefined THEN "pending" ELSE @]

\* INSERT INTO tool_calls: a duplicate id raises a constraint error
insertToolCallPlain(db, t) ==
  IF HasId(db.tool_calls, t.id) THEN [db EXCEPT !.err = "unique"]
  ELSE IF ~HasId(db.messages, t.message_id) \/ ~HasId(db.sessions, t.session_id)
    THEN [db EXCEPT !.err = "fk"]
  ELSE [db EXCEPT !.tool_calls = @ \cup {StatusBound(t)}]

\* INSERT OR IGNORE INTO tool_calls, with both foreign keys enforced
insertToolCall(db, t) ==
  IF HasId(db.tool_calls, t.id) THEN db
  ELSE IF ~HasId(db.messages, t.message_id) \/ ~HasId(db.sessions, t.session_id)
    THEN [db EXCEPT !.err = "fk"]
  ELSE [db EXCEPT !.tool_calls = @ \cup {StatusBound(t)}]

\* the row upsertSession binds for a session
SessionRow(id, projectPath, startedAt, lastActivity, jsonlPath, isActive, nMsg, nTc) ==
  [id |-> id, project_path |-> projectPath, started_at |-> startedAt,
   last_activity |-> lastActivity, jsonl_path |-> jsonlPath, is_active |-> isActive,
   total_messages |-> nMsg, total_tool_calls |-> nTc, metadata |-> Undefined]

\* the row the ingestion loop binds for a parsed message
MessageRow(parsed) ==
  [id |-> parsed.id, session_id |-> parsed.sessionId, parent_id |-> parsed.parentId,
   type |-> parsed.type, timestamp |-> parsed.timestamp, role |-> parsed.role,
   content_preview |-> parsed.contentPreview, content_full |-> parsed.contentFull,
   model |-> parsed.model, stop_reason |-> parsed.stopReason,
   input_tokens |-> parsed.inputTokens, output_tokens |-> parsed.outputTokens]

\* the row of a tool call passed without a status
ToolCallRowNoStatus(parsed, tc) ==
  [id |-> tc.id, message_id |-> parsed.id, session_id |-> parsed.sessionId,
   timestamp |-> parsed.timestamp, tool_name |-> tc.name,
   input_json |-> JSONstringify(tc.input), input_preview |-> tc.inputPreview,
   status |-> Undefined]

\* the row the ingestion loop binds for one tool call of a parsed message
ToolCallRow(parsed, tc) ==
  [id |-> tc.id, message_id |-> parsed.id, session_id |-> parsed.sessionId,
   timestamp |-> parsed.timestamp, tool_name |-> tc.name,
   input_json |-> JSONstringify(tc.input), input_preview |-> tc.inputPreview,
   status |-> "success"]

\* ----------------------------------------------------------------- log files
\* A file is a sequence of units.  Every line occupies two units: its head (the
\* first part of its text) and its tail (the rest of its text and the newline).
\* A writer appends a line whole or head first and tail later.  Offsets and
\* sizes count units.
Head1(line) == [line |-> line, part |-> "h"]
Tail1(line) == [line |-> line, part |-> "t"]
\* the units of a whole line
Whole(l) == <<Head1(l), Tail1(l)>>

\* a piece of a line: whitespace if the line is blank, else text JSON.parse rejects
Fragment(line) == IF line.blank THEN BlankLine ELSE BadLine

\* content.split('\n') over a range of units
RECURSIVE SplitLines(_)
SplitLines(units) ==
  IF units = <<>> THEN <<>>
  ELSE IF units[1].part = "t" THEN <<Fragment(units[1].line)>> \o SplitLines(Tail(units))
  ELSE IF Len(units) = 1 THEN <<Fragment(units[1].line)>>
  ELSE <<units[1].line>> \o SplitLines(Tail(Tail(units)))

\* .filter((line) => line.trim())
NonBlank(lines) == SelectSeq(lines, LAMBDA l : ~l.blank)

\* bytes [from, to) of a file's content
ReadRange(content, from, to) == SubSeq(content, from + 1, to)

\* the number of complete lines in a file's content
CompleteLines(content) == Cardinality({i \in 1..Len(content) : content[i].part = "t"})

\* ------------------------------------------------------- ingestion loop body
\* the statements one message and its tool calls give rise to
RECURSIVE ToolCallOps(_, _)
ToolCallOps(parsed, tcs) ==
  IF tcs = <<>> THEN <<>>
  ELSE <<[op |-> "tc", row |-> ToolCallRow(parsed, tcs[1])]>> \o ToolCallOps(parsed, Tail(tcs))

\* the dedup test with the id added to the set before it is tested
AlreadyProcessedAddFirst(seen, id) == id \in seen \cup {id}

\* processedMessages.has(parsed.id)
AlreadyProcessed(seen, id) == id \in seen

\* the for-loop left at the first line that does not parse
RECURSIVE LoopOpsStopAtBadLine(_, _, _, _)
LoopOpsStopAtBadLine(lines, seen, sessionId, now) ==
  IF lines = <<>> \/ ~parseJsonlLine(lines[1]) THEN <<>>
  ELSE LET parsed == parseEntry(lines[1], sessionId, now)
       IN IF parseEntryIsNull(lines[1]) \/ AlreadyProcessed(seen, parsed.id)
            THEN LoopOpsStopAtBadLine(Tail(lines), seen, sessionId, now)
            ELSE <<[op |-> "msg", row |-> MessageRow(parsed)]>>
                 \o ToolCallOps(parsed, parsed.toolCalls)
                 \o LoopOpsStopAtBadLine(Tail(lines), seen \cup {parsed.id}, sessionId, now)

\* the for-loop taking the lines of a batch from the last to the first
RECURSIVE LoopOpsBackwards(_, _, _, _)
LoopOpsBackwards(lines, seen, sessionId, now) ==
  IF lines = <<>> THEN <<>>
  ELSE LET line == lines[Len(lines)]
           rest == SubSeq(lines, 1, Len(lines) - 1)
       IN IF ~parseJsonlLine(line) \/ parseEntryIsNull(line)
            THEN LoopOpsBackwards(rest, seen, sessionId, now)
          ELSE IF parseEntryThrows(line)
            THEN <<[op |-> "throw"]>>
            ELSE LET parsed == parseEntry(line, sessionId, now)
                 IN IF AlreadyProcessed(seen, parsed.id)
                      THEN LoopOpsBackwards(rest, seen, sessionId, now)
                      ELSE <<[op |-> "msg", row |-> MessageRow(parsed)]>>
                           \o ToolCallOps(parsed, parsed.toolCalls)
                           \o LoopOpsBackwards(rest, seen \cup {parsed.id}, sessionId, now)

\* The for-loop over the lines of a batch: the insert statements it issues, in
\* order, given the dedup set it starts with.  A line is skipped when it does not
\* parse, is no user/assistant message, or has an id already in the dedup set.
RECURSIVE LoopOps(_, _, _, _)
LoopOps(lines, seen, sessionId, now) ==
  IF lines = <<>> THEN <<>>
  ELSE LET line == lines[1]
           rest == Tail(lines)
       IN IF ~parseJsonlLine(line) \/ parseEntryIsNull(line)
            THEN LoopOps(rest, seen, sessionId, now)
          ELSE IF parseEntryThrows(line)
            THEN <<[op |-> "throw"]>>
            ELSE LET parsed == parseEntry(line, sessionId, now)
                 IN IF AlreadyProcessed(seen, parsed.id)
                      THEN LoopOps(rest, seen, sessionId, now)
                      ELSE <<[op |-> "msg", row |-> MessageRow(parsed)]>>
                           \o ToolCallOps(parsed, parsed.toolCalls)
                           \o LoopOps(rest, seen \cup {parsed.id}, sessionId, now)

\* the timestamps of the entries of a batch that carry one, in order
RECURSIVE Timestamps(_)
Timestamps(lines) ==
  IF lines = <<>> THEN <<>>
  ELSE (IF parseJsonlLine(lines[1]) /\ ~Falsy(lines[1].timestamp)
          THEN <<lines[1].timestamp>> ELSE <<>>)
       \o Timestamps(Tail(lines))

FirstTimestamp(lines) ==
  IF Timestamps(lines) = <<>> THEN Undefined ELSE Timestamps(lines)[1]
LastTimestamp(lines) ==
  IF Timestamps(lines) = <<>> THEN Undefined ELSE Timestamps(lines)[Len(Timestamps(lines))]

\* ------------------------------------------------------ processJsonlFile
\* One invocation of processJsonlFile in flight: the statements still to issue
\* (ops) and its local variables.  Idle when no invocation is in flight.
NoPath == FilePath(<<>>, "", FALSE)
Idle == [active |-> FALSE, prog |-> "", path |-> NoPath, sid |-> "", isActive |-> FALSE,
         now |-> "", ops |-> <<>>, msgCount |-> 0, tcCount |-> 0, addedMsg |-> 0, addedTc |-> 0,
         firstTs |-> Undefined, lastTs |-> Undefined, from |-> 0, size |-> 0, nlines |-> 0]

\* the early return taken only when the size equals the offset
HasNewDataOnChange(size, currentPosition) == size # currentPosition

\* stats.size <= currentPosition returns early: there is new data otherwise
HasNewData(size, currentPosition) == size > currentPosition

\* the offset moved only by an invocation that stored a record
NewPositionIfRecords(h) == IF h.msgCount > 0 \/ h.tcCount > 0 THEN h.size ELSE h.from

\* the offset set to the length of the buffer read
NewPositionBufferLength(h) == h.size - h.from

\* the offset filePositions.set stores at the end of an invocation
NewPosition(h) == h.size

\* The process state an invocation works on: the store (db), the dedup set
\* (seen), the offset map (pos), the invocation (h), whether the last invocation
\* threw (threw), and the records of the first insert per id (firstMsg, firstTc).
Machine(d, seen, pos, h, fm, ft) ==
  [db |-> d, seen |-> seen, pos |-> pos, h |-> h, threw |-> FALSE,
   firstMsg |-> fm, firstTc |-> ft, failAt |-> 0, report |-> <<>>]

\* the loop with no upsert before it
WatchOpsLoopFirst(lines, seen, sid, now) ==
  LoopOps(lines, seen, sid, now) \o <<[op |-> "final"]>>

\* the statements of the watch service's processJsonlFile, in order: the
\* provisional upsert, the loop's inserts, the offset update and final upsert
WatchOps(lines, seen, sid, now) ==
  <<[op |-> "upsert0"]>> \o LoopOps(lines, seen, sid, now) \o <<[op |-> "final"]>>

\* the statements of the one-shot program's processJsonlFile, in order
OneShotOps(lines, seen, sid, now) ==
  <<[op |-> "upsert0"]>> \o LoopOps(lines, seen, sid, now) \o <<[op |-> "final"]>>

\* the watch service's processJsonlFile, from its start to the provisional upsert
BeginWatch(m, path, sid, content, isActive, now) ==
  LET size == Len(content)
      currentPosition == m.pos[path]
      lines == NonBlank(SplitLines(ReadRange(content, currentPosition, size)))
  IN IF ~HasNewData(size, currentPosition)
       THEN [m EXCEPT !.h = [Idle EXCEPT !.path = path, !.from = currentPosition,
                                         !.size = currentPosition]]
       ELSE [m EXCEPT !.h =
               [active |-> TRUE, prog |-> "watch", path |-> path, sid |-> sid,
                isActive |-> isActive, now |-> now,
                ops |-> WatchOps(lines, m.seen, sid, now),
                msgCount |-> 0, tcCount |-> 0, addedMsg |-> 0, addedTc |-> 0,
                firstTs |-> FirstTimestamp(lines), lastTs |-> LastTimestamp(lines),
                from |-> currentPosition, size |-> size, nlines |-> Len(lines)]]

\* the one-shot program's processJsonlFile: it reads the whole file
BeginOneShot(m, path, sid, content, isActive, now) ==
  LET lines == NonBlank(SplitLines(content))
  IN [m EXCEPT !.h =
        [active |-> TRUE, prog |-> "oneshot", path |-> path, sid |-> sid,
         isActive |-> isActive, now |-> now,
         ops |-> OneShotOps(lines, m.seen, sid, now),
         msgCount |-> 0, tcCount |-> 0, addedMsg |-> 0, addedTc |-> 0,
         firstTs |-> FirstTimestamp(lines), lastTs |-> LastTimestamp(lines),
         from |-> 0, size |-> Len(content), nlines |-> Len(lines)]]

\* the session row of the upsert that precedes the loop
ProvisionalRow(h) ==
  SessionRow(h.sid, extractProjectPath(h.path), h.now, h.now, h.path, h.isActive, 0, 0)

\* the session row of the upsert that follows the loop, with the totals of
\* the provisional row
FinalRowNoTotals(h) ==
  SessionRow(h.sid, extractProjectPath(h.path),
             IF Falsy(h.firstTs) THEN h.now ELSE h.firstTs,
             IF Falsy(h.lastTs) THEN h.now ELSE h.lastTs,
             h.path,
             IF h.prog = "watch" THEN TRUE ELSE h.isActive,
             0, 0)

\* the session row of the upsert that follows the loop
FinalRow(h) ==
  SessionRow(h.sid, extractProjectPath(h.path),
             IF Falsy(h.firstTs) THEN h.now ELSE h.firstTs,
             IF Falsy(h.lastTs) THEN h.now ELSE h.lastTs,
             h.path,
             IF h.prog = "watch" THEN TRUE ELSE h.isActive,
             h.msgCount, h.tcCount)

\* the first row inserted under each id
NoteFirst(first, row) == IF HasId(first, row.id) THEN first ELSE first \cup {row}

\* a statement of the watch service raised: the exception leaves processJsonlFile
Throw(m, r) == [m EXCEPT !.db = [m.db EXCEPT !.err = r.err], !.h = Idle, !.threw = TRUE]

Ran(d, r) == [r EXCEPT !.err = d.err]

\* what the one-shot program's processJsonlFile returns and main prints and
\* sums, with the numbers of rows the call added to the store
Returned(h) ==
  [path |-> h.path, messages |-> h.msgCount, toolCalls |-> h.tcCount,
   addedMessages |-> h.addedMsg, addedToolCalls |-> h.addedTc]

\* the next statement of the invocation in flight, the store working
RunOp(m) ==
  LET h == m.h
      o == Head(h.ops)
      d == [m.db EXCEPT !.err = "ok"]
      next == [h EXCEPT !.ops = Tail(h.ops)]
  IN CASE o.op = "throw" -> Throw(m, [err |-> "parser"])
       [] o.op = "upsert0" ->
            [m EXCEPT !.db = Ran(m.db, upsertSession(d, ProvisionalRow(h))), !.h = next]
       [] o.op = "msg" ->
            LET r == insertMessage(d, o.row)
                m1 == [m EXCEPT !.seen = @ \cup {o.row.id},
                                !.firstMsg = NoteFirst(@, o.row)]
            IN IF r.err = "ok"
                 THEN [m1 EXCEPT !.db = Ran(m.db, r),
                                 !.h = [next EXCEPT !.msgCount = @ + 1,
                                                    !.addedMsg = @ + Cardinality(r.messages)
                                                                   - Cardinality(d.messages)]]
               ELSE IF h.prog = "watch" THEN Throw(m1, r)
               ELSE [m1 EXCEPT !.db = [m.db EXCEPT !.err = r.err], !.h = next]
       [] o.op = "tc" ->
            LET r == insertToolCall(d, o.row)
                m1 == [m EXCEPT !.firstTc = NoteFirst(@, o.row)]
            IN IF r.err = "ok"
                 THEN [m1 EXCEPT !.db = Ran(m.db, r),
                                 !.h = [next EXCEPT !.tcCount = @ + 1,
                                                    !.addedTc = @ + Cardinality(r.tool_calls)
                                                                  - Cardinality(d.tool_calls)]]
               ELSE IF h.prog = "watch" THEN Throw(m1, r)
               ELSE [m1 EXCEPT !.db = [m.db EXCEPT !.err = r.err], !.h = next]
       [] o.op = "final" ->
            LET m1 == IF h.prog = "watch"
                        THEN [m EXCEPT !.pos = [@ EXCEPT ![h.path] = NewPosition(h)]]
                        ELSE [m EXCEPT !.report = Append(@, Returned(h))]
            IN IF h.msgCount > 0 \/ h.tcCount > 0
                 THEN [m1 EXCEPT !.db = Ran(m.db, upsertSession(d, FinalRow(h))),
                                 !.h = Idle]
                 ELSE [m1 EXCEPT !.h = Idle]

\* whether the next statement of the invocation in flight writes to the store
IsStoreOp(h) ==
  \/ Head(h.ops).op \in {"upsert0", "msg", "tc"}
  \/ Head(h.ops).op = "final" /\ (h.msgCount > 0 \/ h.tcCount > 0)

\* the next statement is a store write and the store fails it (disk full, busy,
\* I/O error).  The watch service catches nothing inside processJsonlFile; the
\* one-shot program catches what insertMessage and insertToolCall raise and
\* goes on, and nothing catches what upsertSession raises.
FailOp(m) ==
  LET h == m.h
      o == Head(h.ops)
      io == [err |-> "io"]
      next == [h EXCEPT !.ops = Tail(h.ops)]
  IN CASE o.op = "msg" ->
            LET m1 == [m EXCEPT !.seen = @ \cup {o.row.id}] IN
            IF h.prog = "watch" THEN Throw(m1, io)
            ELSE [m1 EXCEPT !.db = [m.db EXCEPT !.err = "io"], !.h = next]
       [] o.op = "tc" ->
            IF h.prog = "watch" THEN Throw(m, io)
            ELSE [m EXCEPT !.db = [m.db EXCEPT !.err = "io"], !.h = next]
       [] o.op = "final" /\ h.prog = "watch" ->
            Throw([m EXCEPT !.pos = [@ EXCEPT ![h.path] = NewPosition(h)]], io)
       [] OTHER -> Throw(m, io)

\* the next statement of the invocation in flight; failAt counts the store
\* writes down to the one that fails (0: none fails)
StepOp(m) ==
  IF ~IsStoreOp(m.h) \/ m.failAt = 0 THEN RunOp(m)
  ELSE IF m.failAt = 1 THEN FailOp([m EXCEPT !.failAt = 0])
  ELSE RunOp([m EXCEPT !.failAt = @ - 1])

\* an invocation run to its end
RECURSIVE RunToEnd(_)
RunToEnd(m) == IF m.h.active THEN RunToEnd(StepOp(m)) ELSE m

\* the start of an invocation of either program
Begin(prog, m, path, sid, content, isActive, now) ==
  IF prog = "watch" THEN BeginWatch(m, path, sid, content, isActive, now)
  ELSE BeginOneShot(m, path, sid, content, isActive, now)

\* what is left of a loop's queue after the invocation on its first file:
\* onThrow says what the loop does with an exception: "continue" with the next
\* file, "skipdir": leave the rest of that directory, "abort": leave the loop
RestOfQueue(queue, threw, onThrow) ==
  IF threw /\ onThrow = "skipdir"
    THEN SelectSeq(Tail(queue), LAMBDA x : x.path.slug # queue[1].path.slug)
  ELSE IF threw /\ onThrow = "abort" THEN <<>>
  ELSE Tail(queue)

\* a synchronous loop over files (a queue of [path, sid]), each processed to its end
RECURSIVE RunQueue(_, _, _, _, _, _, _)
RunQueue(prog, m, queue, content, isRecent, now, onThrow) ==
  IF queue = <<>> THEN m
  ELSE LET e == queue[1]
           r == RunToEnd(Begin(prog, [m EXCEPT !.threw = FALSE], e.path, e.sid,
                               content[e.path], isRecent[e.path], now))
           out == RunQueue(prog, [r EXCEPT !.h = Idle],
                           RestOfQueue(queue, r.threw, onThrow),
                           content, isRecent, now, onThrow)
       IN [out EXCEPT !.threw = r.threw \/ out.threw]

\* ------------------------------------------------------------- the scenario
\* the log files under the projects directory, in readdir order
F1 == FilePath(<<"-", "h", "-", "p">>, "e52de424", TRUE)
F2 == FilePath(<<"-", "h", "-", "q">>, "0a1b2c3d", TRUE)
ScanOrder == <<F1, F2>>
Paths == {ScanOrder[i] : i \in 1..Len(ScanOrder)}

\* wall-clock readings, five minutes apart
Clock == <<"now0", "now1", "now2", "now3", "now4", "now5", "now6", "now7", "now8", "now9">>
NowAt(n) == Clock[IF n < Len(Clock) THEN n + 1 ELSE Len(Clock)]

\* the lines the log writers write
UserX == Entry("user", "a", "t1", Undefined, StrContent(<<"x">>))
UserY == Entry("user", "a", "t2", Undefined, StrContent(<<"y">>))
AsstB == Entry("assistant", "b", "t3", "m1",
               ArrContent(<<TextItem(<<"o", "k">>), ToolUse("tu1", "Bash", BashInput(<<"l", "s">>))>>))
AsstC == Entry("assistant", "c", "t4", "m2",
               ArrContent(<<ToolUse("tu2", "Grep", NoInput)>>))
Queued == [Entry("queue-operation", Undefined, "t5", Undefined, NoContent)
             EXCEPT !.hasMessage = FALSE]
LinesOf(path) == IF path = F1 THEN {UserX, AsstB, Queued}
                 ELSE {UserY, AsstC}

VARIABLES
  files,              \* path -> content (a sequence of units)
  recent,             \* path -> the file's mtime is within the last 5 minutes
  writes,             \* writes made so far
  ages,               \* quiet periods of five minutes so far
  db,                 \* the SQLite store
  wpc,                \* watch service: "init", "watching", "crashed"
  filePositions,      \* watch service: path -> last-read offset
  processedMessages,  \* watch service: the dedup set
  wH,                 \* watch service: the processJsonlFile invocation in flight
  lastRead,           \* path -> the range the watch service last read of it, and
                      \*         the number of lines it has processed of it
  dirty,              \* path -> written since the watch service last processed it
  firstSeen,          \* the message rows of the first line processed per id
  firstMsg,           \* the first row handed to insertMessage per id
  firstTc,            \* the first row handed to insertToolCall per id
  restarts,           \* restarts of the watch service so far
  preRestart,         \* the message and tool-call rows stored at the last restart
  opc,                \* one-shot program: "off", "running"
  oProcessed,         \* one-shot program: the dedup set
  oQueue,             \* one-shot program: the files still to process
  oH,                 \* one-shot program: the processJsonlFile invocation in flight
  runs,               \* one-shot runs started so far
  runCounts,          \* the aggregate counts in the store at the end of each run
  oRead,              \* how far the one-shot program's latest read of each file went
  wQueue,             \* watch service: the files its loop in progress still visits
  oReport,            \* one-shot program: the per-file counts the latest run reported
  rootExists,         \* the projects directory exists
  exitCodes,          \* one-shot program: the exit code of each run ended so far
  call,               \* a call of one parser function: its arguments and its result
  server              \* dashboard server: the remembered tool-call count, and the
                      \*                   updates it has broadcast

vars == <<files, recent, writes, ages, db, wpc, filePositions, processedMessages, wH,
          lastRead, dirty, firstSeen, firstMsg, firstTc, restarts, preRestart,
          opc, oProcessed, oQueue, oH, runs, runCounts, oRead, wQueue, rootExists, exitCodes,
          oReport, call, server>>

pureVars == <<call>>
serverVars == <<server>>
envVars == <<files, recent, writes, ages, rootExists, pureVars, serverVars>>
watchVars == <<wpc, filePositions, processedMessages, wH, wQueue>>
oneShotVars == <<opc, oProcessed, oQueue, oH, runs, runCounts, oRead, exitCodes, oReport>>
ghostVars == <<lastRead, dirty, firstSeen, firstMsg, firstTc>>
restartVars == <<restarts, preRestart>>

Now == NowAt(ages)

\* no parser function is being called on its own
NoCall == [fn |-> "none", name |-> "", input |-> NoInput, content |-> NoContent,
           path |-> NoPath, entry |-> BadLine, sid |-> "", done |-> FALSE, out |-> <<>>,
           result |-> "", ids |-> [scan |-> "", event |-> "", tick |-> ""]]

\* the dashboard server at start: let lastToolCallCount = 0, nothing broadcast
ServerStart == [lastToolCallCount |-> 0, updates |-> <<>>, atBroadcast |-> {}]

\* the state at start, the projects directory existing or not
InitWith(exists) ==
  /\ rootExists = exists
  /\ server = ServerStart
  /\ exitCodes = <<>>
  /\ oReport = <<>>
  /\ files = [p \in Paths |-> <<>>]
  /\ recent = [p \in Paths |-> FALSE]
  /\ writes = 0
  /\ ages = 0
  /\ db = EmptyDb
  /\ wpc = "init"
  /\ filePositions = [p \in Paths |-> 0]
  /\ processedMessages = {}
  /\ wH = Idle
  /\ lastRead = [p \in Paths |-> [from |-> 0, to |-> 0, nlines |-> 0]]
  /\ dirty = [p \in Paths |-> FALSE]
  /\ firstSeen = {}
  /\ firstMsg = {}
  /\ firstTc = {}
  /\ restarts = 0
  /\ preRestart = [messages |-> {}, tool_calls |-> {}]
  /\ opc = "off"
  /\ oProcessed = {}
  /\ oQueue = <<>>
  /\ oH = Idle
  /\ runs = 0
  /\ runCounts = <<>>
  /\ oRead = [p \in Paths |-> 0]
  /\ wQueue = <<>>

Init == InitWith(TRUE) /\ call = NoCall

\* ---------------------------------------------------------- the log writers
EndsInHead(content) == content # <<>> /\ content[Len(content)].part = "h"

Written(p, content) ==
  /\ rootExists
  /\ writes < MaxWrites
  /\ writes' = writes + 1
  /\ files' = [files EXCEPT ![p] = content]
  /\ recent' = [recent EXCEPT ![p] = TRUE]
  /\ dirty' = [dirty EXCEPT ![p] = TRUE]
  /\ UNCHANGED <<ages, rootExists, pureVars, serverVars, db, watchVars, lastRead, firstSeen, firstMsg, firstTc,
                 restartVars, oneShotVars>>

\* a writer appends a whole line
AppendLine(p) ==
  \E l \in LinesOf(p) :
    /\ ~EndsInHead(files[p])
    /\ CompleteLines(files[p]) < MaxLines
    /\ Written(p, files[p] \o <<Head1(l), Tail1(l)>>)

\* the lines of a session as its writer logs them, in order
SessionLog(p) == IF p = F1 THEN <<UserX, AsstB, Queued>> ELSE <<AsstC, UserY, Queued>>

\* a writer appends the next whole line of its session
AppendNext(p) ==
  /\ CompleteLines(files[p]) < MaxLines
  /\ Written(p, files[p] \o Whole(SessionLog(p)[CompleteLines(files[p]) + 1]))

\* a writer appends the first part of a line
AppendHead(p) ==
  \E l \in LinesOf(p) :
    /\ ~EndsInHead(files[p])
    /\ CompleteLines(files[p]) < MaxLines
    /\ Written(p, Append(files[p], Head1(l)))

\* the writer appends the rest of the line it began
AppendTail(p) ==
  /\ EndsInHead(files[p])
  /\ Written(p, Append(files[p], Tail1(files[p][Len(files[p])].line)))

\* the file is truncated to nothing (rotated)
TruncateFile(p) ==
  /\ files[p] # <<>>
  /\ Written(p, <<>>)

\* five minutes pass without a write to any file
Age ==
  /\ \E p \in Paths : recent[p]
  /\ ages < MaxAges
  /\ ages' = ages + 1
  /\ recent' = [p \in Paths |-> FALSE]
  /\ UNCHANGED <<files, writes, rootExists, pureVars, serverVars, db, watchVars, ghostVars, restartVars,
                 oneShotVars>>

\* --------------------------------------------------------- the watch service
WatchMachine == Machine(db, processedMessages, filePositions, wH, firstMsg, firstTc)

\* what an invocation on path p reads, given the offsets before the step
ReadOf(m, p) ==
  LET b == BeginWatch(m, p, "", files[p], recent[p], "") IN
  [from |-> b.h.from, to |-> b.h.size, nlines |-> b.h.nlines]

\* the message rows of the lines of a batch that parse to a message, in order
RECURSIVE ParsedRows(_, _, _)
ParsedRows(lines, sid, now) ==
  IF lines = <<>> THEN <<>>
  ELSE (IF parseJsonlLine(lines[1]) /\ ~parseEntryIsNull(lines[1])
          THEN <<MessageRow(parseEntry(lines[1], sid, now))>> ELSE <<>>)
       \o ParsedRows(Tail(lines), sid, now)

RECURSIVE NoteAll(_, _)
NoteAll(first, rows) ==
  IF rows = <<>> THEN first ELSE NoteAll(NoteFirst(first, rows[1]), Tail(rows))

\* firstSeen after the files of a queue were processed
RECURSIVE SeenAfter(_, _, _, _)
SeenAfter(first, m, queue, now) ==
  IF queue = <<>> THEN first
  ELSE LET e == queue[1]
           r == ReadOf(m, e.path)
           lines == NonBlank(SplitLines(ReadRange(files[e.path], r.from, r.to)))
       IN SeenAfter(NoteAll(first, ParsedRows(lines, e.sid, now)), m, Tail(queue), now)

QueuePaths(queue) == {queue[i].path : i \in 1..Len(queue)}

\* the watch service runs a synchronous loop over a queue of files, the store
\* failing its failAt-th write (0: none)
ProcessFailing(failAt, queue, now, onThrow) ==
  \E m \in {RunQueue("watch", [WatchMachine EXCEPT !.failAt = failAt], queue, files, recent,
                      now, onThrow)} :
  /\ db' = m.db
  /\ processedMessages' = m.seen
  /\ filePositions' = m.pos
  /\ wH' = Idle
  /\ wQueue' = <<>>
  /\ firstMsg' = m.firstMsg
  /\ firstTc' = m.firstTc
  /\ firstSeen' = SeenAfter(firstSeen, WatchMachine, queue, now)
  /\ lastRead' = [p \in Paths |->
                    LET r == ReadOf(WatchMachine, p) IN
                    IF p \in QueuePaths(queue) /\ r.to > r.from /\ m.pos[p] # filePositions[p]
                      THEN [from |-> r.from, to |-> r.to,
                            nlines |-> lastRead[p].nlines + r.nlines]
                      ELSE lastRead[p]]
  /\ dirty' = [p \in Paths |-> IF p \in QueuePaths(queue) THEN FALSE ELSE dirty[p]]
  /\ UNCHANGED <<envVars, restartVars, oneShotVars>>

\* the watch service runs a synchronous loop over a queue of files
Process(queue, now, onThrow) == ProcessFailing(0, queue, now, onThrow)

\* the files a loop over the projects directory visits, with the session id
\* derived from the file name
RECURSIVE ByName(_)
ByName(paths) ==
  IF paths = <<>> THEN <<>>
  ELSE <<[path |-> paths[1], sid |-> extractSessionId(paths[1], FALSE)]>> \o ByName(Tail(paths))

\* scanExistingFiles, were the service to exit when the projects directory is
\* missing
ScanExistingFilesOrExit ==
  /\ wpc = "init"
  /\ Process(IF rootExists THEN ByName(ScanOrder) ELSE <<>>, Now, "continue")
  /\ wpc' = IF rootExists THEN "watching" ELSE "crashed"

\* scanExistingFiles, run once at start: it returns at once when the projects
\* directory is missing, and the service goes on to watch
ScanExistingFiles ==
  /\ wpc = "init"
  /\ Process(IF rootExists THEN ByName(ScanOrder) ELSE <<>>, Now, "continue")
  /\ wpc' = "watching"

\* the watcher's add/change listener for one file
WatchEvent(p) ==
  /\ wpc = "watching"
  /\ LET q == <<[path |-> p, sid |-> extractSessionId(p, TRUE)]>> IN
       /\ Process(q, Now, "continue")
       /\ wpc' = IF RunQueue("watch", WatchMachine, q, files, recent, Now, "continue").threw
                   THEN "crashed" ELSE wpc

\* one tick of the periodic re-scan: the recently modified files, none when
\* the projects directory is missing
PeriodicScan ==
  /\ wpc = "watching"
  /\ Process(IF rootExists THEN ByName(SelectSeq(ScanOrder, LAMBDA p : recent[p])) ELSE <<>>,
             Now, "skipdir")
  /\ wpc' = wpc

\* the watch service is stopped and started again: the module-level offset map
\* and dedup set start empty, the store keeps its rows
Restart ==
  /\ wpc = "watching"
  /\ restarts < MaxRestarts
  /\ restarts' = restarts + 1
  /\ preRestart' = [messages |-> db.messages, tool_calls |-> db.tool_calls]
  /\ wpc' = "init"
  /\ filePositions' = [p \in Paths |-> 0]
  /\ processedMessages' = {}
  /\ wH' = Idle
  /\ lastRead' = [p \in Paths |-> [from |-> 0, to |-> 0, nlines |-> 0]]
  /\ dirty' = [p \in Paths |-> files[p] # <<>>]
  /\ firstSeen' = {}
  /\ wQueue' = <<>>
  /\ UNCHANGED <<envVars, db, firstMsg, firstTc, oneShotVars>>

Next ==
  \/ \E p \in Paths : AppendLine(p)
  \/ \E p \in Paths : AppendHead(p)
  \/ \E p \in Paths : AppendTail(p)
  \/ \E p \in Paths : TruncateFile(p)
  \/ Age
  \/ ScanExistingFiles
  \/ \E p \in Paths : WatchEvent(p)
  \/ PeriodicScan

Spec == Init /\ [][Next]_vars

\* ------------------------------------------------------ the one-shot program
\* the aggregate counts of the store
Counts(d) ==
  [messages |-> Cardinality(d.messages), tool_calls |-> Cardinality(d.tool_calls),
   totals |-> {<<r.id, r.total_messages, r.total_tool_calls>> : r \in d.sessions}]

\* main of the one-shot program, in a new process, over the files it can read
\* (paths), the store failing its failAt-th write (0: none): every file of every
\* project directory is processed, then the store is closed and the process exits
OneShotRunOver(failAt, paths) ==
  /\ opc = "off"
  /\ runs < MaxRuns
  /\ rootExists
  /\ \E m \in {RunQueue("oneshot",
                         [Machine(db, {}, filePositions, Idle, firstMsg, firstTc)
                            EXCEPT !.failAt = failAt],
                         ByName(paths), files, recent, Now, "abort")} :
       /\ db' = m.db
       /\ oProcessed' = m.seen
       /\ firstMsg' = m.firstMsg
       /\ firstTc' = m.firstTc
       /\ runCounts' = IF m.threw THEN runCounts ELSE Append(runCounts, Counts(m.db))
       /\ exitCodes' = Append(exitCodes, IF m.threw THEN 1 ELSE 0)
       /\ oReport' = m.report
  /\ oRead' = [p \in Paths |-> IF \E i \in 1..Len(paths) : paths[i] = p
                                  THEN Len(files[p]) ELSE oRead[p]]
  /\ runs' = runs + 1
  /\ UNCHANGED <<envVars, watchVars, lastRead, dirty, firstSeen, restartVars, opc, oQueue, oH>>

\* main of the one-shot program, every file readable
OneShotRunFailing(failAt) == OneShotRunOver(failAt, ScanOrder)

\* main of the one-shot program, the store working
OneShotRun == OneShotRunFailing(0)

\* main of the one-shot program when the projects directory is missing: it
\* prints the error and exits with code 1 before the store is opened
OneShotNoRoot ==
  /\ opc = "off"
  /\ runs < MaxRuns
  /\ ~rootExists
  /\ runs' = runs + 1
  /\ exitCodes' = Append(exitCodes, 1)
  /\ oReport' = <<>>
  /\ UNCHANGED <<envVars, db, watchVars, ghostVars, restartVars, opc, oProcessed, oQueue,
                 oH, runCounts, oRead>>

\* the projects directory is created
RootAppears ==
  /\ ~rootExists
  /\ rootExists' = TRUE
  /\ UNCHANGED <<files, recent, writes, ages, pureVars, serverVars, db, watchVars, ghostVars, restartVars,
                 oneShotVars>>

Writers ==
  \/ \E p \in Paths : AppendLine(p)
  \/ \E p \in Paths : AppendHead(p)
  \/ \E p \in Paths : AppendTail(p)
  \/ \E p \in Paths : TruncateFile(p)
  \/ Age

\* one-shot runs over a file set that does not change once the first run began
NextOneShot ==
  \/ runs = 0 /\ Writers
  \/ OneShotRun
SpecOneShot == Init /\ [][NextOneShot]_vars

\* ------------------------------------------- one log file, ingested as it is
\* the longest log file of the batch scenarios, in lines
MaxBatch == 3

\* a line of text that is not JSON
Garbage == BadLine

\* a JSON scalar or array: no type, no message
Scalar == [Entry(Undefined, Undefined, Undefined, Undefined, NoContent)
             EXCEPT !.hasMessage = FALSE, !.role = Undefined]

\* user/assistant lines whose message is not shaped as the parser expects
AsstNumber == Entry("assistant", "d", "t6", "m3", OtherContent)
UserNullItem == Entry("user", "e", "t7", Undefined, ArrContent(<<NullItem>>))
AsstNumberCommand ==
  Entry("assistant", "f", "t8", "m4", ArrContent(<<ToolUse("tu3", "Bash", NumberCommandInput)>>))

IllShaped == {AsstNumber, UserNullItem, AsstNumberCommand}

\* an assistant message with one text segment only
AsstText == Entry("assistant", "f", "t8", "m4", ArrContent(<<TextItem(<<"o", "k">>)>>))

BatchLines == {UserX, AsstB, AsstC, AsstText, Queued, Garbage, Scalar} \cup IllShaped

\* the contents of a file of whole lines
RECURSIVE UnitsOf(_)
UnitsOf(lines) == IF lines = <<>> THEN <<>> ELSE Whole(lines[1]) \o UnitsOf(Tail(lines))

BatchFiles ==
  {UnitsOf(ls) : ls \in UNION {[1..n -> BatchLines] : n \in 0..MaxBatch}}

\* the projects directory holds one log file drawn from a set of contents,
\* written before either program starts
InitFiles(contents) ==
  /\ rootExists = TRUE
  /\ server = ServerStart
  /\ call = NoCall
  /\ exitCodes = <<>>
  /\ oReport = <<>>
  /\ files \in {[p \in Paths |-> IF p = F1 THEN c ELSE <<>>] : c \in contents}
  /\ recent \in {[p \in Paths |-> p = F1 /\ b] : b \in BOOLEAN}
  /\ writes = 0
  /\ ages = 0
  /\ db = EmptyDb
  /\ wpc = "init"
  /\ filePositions = [p \in Paths |-> 0]
  /\ processedMessages = {}
  /\ wH = Idle
  /\ lastRead = [p \in Paths |-> [from |-> 0, to |-> 0, nlines |-> 0]]
  /\ dirty = [p \in Paths |-> files[p] # <<>>]
  /\ firstSeen = {}
  /\ firstMsg = {}
  /\ firstTc = {}
  /\ restarts = 0
  /\ preRestart = [messages |-> {}, tool_calls |-> {}]
  /\ opc = "off"
  /\ oProcessed = {}
  /\ oQueue = <<>>
  /\ oH = Idle
  /\ runs = 0
  /\ runCounts = <<>>
  /\ oRead = [p \in Paths |-> 0]
  /\ wQueue = <<>>

InitBatch == InitFiles(BatchFiles)

NextBatch ==
  \/ ScanExistingFiles
  \/ OneShotRun

SpecBatch == InitBatch /\ [][NextBatch]_vars

\* lines that differ in which ids they carry: the entry's own and the payload's,
\* the payload's only, none (two lines with one timestamp), none and no timestamp
IdUuid == Entry("user", "a", "t1", "m9", StrContent(<<"x">>))
IdPayload == Entry("assistant", Undefined, "t2", "m1", ArrContent(<<TextItem(<<"o", "k">>)>>))
NoIdX == Entry("user", Undefined, "t3", Undefined, StrContent(<<"x">>))
NoIdY == Entry("user", Undefined, "t3", Undefined, StrContent(<<"y">>))
NoTsX == Entry("user", Undefined, Undefined, Undefined, StrContent(<<"x">>))
NoTsY == Entry("user", Undefined, Undefined, Undefined, StrContent(<<"y">>))

IdLines == {IdUuid, IdPayload, NoIdX, NoIdY, NoTsX, NoTsY}

IdFiles == {UnitsOf(ls) : ls \in UNION {[1..n -> IdLines] : n \in 0..MaxBatch}}

InitIds == InitFiles(IdFiles)
SpecIds == InitIds /\ [][NextBatch]_vars

\* ------------------------------------------------------ store write failures
\* the store writes of a loop among which one may fail
MaxFailAt == 3

\* scanExistingFiles, a store write failing: the catch around each file logs it
ScanWithFault ==
  /\ wpc = "init"
  /\ \E k \in 1..MaxFailAt : ProcessFailing(k, ByName(ScanOrder), Now, "continue")
  /\ wpc' = "watching"

\* the watcher's add/change listener, a store write failing: the listener
\* catches nothing and the exception ends the process
EventWithFault(p) ==
  /\ wpc = "watching"
  /\ \E k \in 1..MaxFailAt :
       LET q == <<[path |-> p, sid |-> extractSessionId(p, TRUE)]>> IN
       /\ ProcessFailing(k, q, Now, "continue")
       /\ wpc' = IF RunQueue("watch", [WatchMachine EXCEPT !.failAt = k], q, files, recent,
                             Now, "continue").threw
                   THEN "crashed" ELSE wpc

\* a tick of the periodic re-scan, a store write failing: the catch around each
\* project directory swallows it
TickWithFault ==
  /\ wpc = "watching"
  /\ \E k \in 1..MaxFailAt :
       ProcessFailing(k, ByName(SelectSeq(ScanOrder, LAMBDA p : recent[p])), Now, "skipdir")
  /\ wpc' = wpc

\* a one-shot run, a store write failing
OneShotWithFault == \E k \in 1..MaxFailAt : OneShotRunFailing(k)

NextFault ==
  \/ \E p \in Paths : AppendNext(p)
  \/ ScanExistingFiles
  \/ \E p \in Paths : WatchEvent(p)
  \/ PeriodicScan
  \/ ScanWithFault
  \/ \E p \in Paths : EventWithFault(p)
  \/ TickWithFault

SpecFault == Init /\ [][NextFault]_vars

\* one-shot runs with store failures, over files written before the first run
NextOneShotFault ==
  \/ runs = 0 /\ Writers
  \/ OneShotRun
  \/ OneShotWithFault

SpecOneShotFault == Init /\ [][NextOneShotFault]_vars

\* ------------------------------------------------ filesystem access failures
\* the files of a listing other than p
Without(paths, p) == SelectSeq(paths, LAMBDA q : q # p)

\* the files of a listing that precede the directory of p
RECURSIVE BeforeDir(_, _)
BeforeDir(paths, p) ==
  IF paths = <<>> \/ paths[1].slug = p.slug THEN <<>>
  ELSE <<paths[1]>> \o BeforeDir(Tail(paths), p)

\* the files of a listing outside the directory of p, and those of its
\* directory that precede p
RECURSIVE SkipRestOfDir(_, _, _)
SkipRestOfDir(paths, p, reached) ==
  IF paths = <<>> THEN <<>>
  ELSE IF paths[1].slug = p.slug /\ (reached \/ paths[1] = p)
    THEN SkipRestOfDir(Tail(paths), p, TRUE)
  ELSE <<paths[1]>> \o SkipRestOfDir(Tail(paths), p, reached)

\* scanExistingFiles when statSync or readdirSync of the directory of p raises:
\* nothing catches it, the exception ends the scan and the process
ScanDirFails(p) ==
  /\ wpc = "init"
  /\ Process(ByName(BeforeDir(ScanOrder, p)), Now, "continue")
  /\ wpc' = "crashed"

\* scanExistingFiles when statSync of file p raises in processJsonlFile: the
\* catch around the file logs it
ScanFileFails(p) ==
  /\ wpc = "init"
  /\ Process(ByName(Without(ScanOrder, p)), Now, "continue")
  /\ wpc' = "watching"

\* a tick when a stat of file p or of its directory raises: the catch around
\* the directory leaves the rest of the directory
TickFsFails(p) ==
  /\ wpc = "watching"
  /\ Process(ByName(SkipRestOfDir(SelectSeq(ScanOrder, LAMBDA q : recent[q]), p, FALSE)),
             Now, "skipdir")
  /\ wpc' = wpc

\* a one-shot run when the directory of p cannot be listed or p cannot be read:
\* main goes on with the next directory, processJsonlFile returns zero counts
OneShotFsFails(p) == OneShotRunOver(0, Without(ScanOrder, p))

NextFs ==
  \/ \E p \in Paths : AppendNext(p)
  \/ ScanExistingFiles
  \/ \E p \in Paths : WatchEvent(p)
  \/ PeriodicScan
  \/ OneShotRun
  \/ \E p \in Paths : ScanDirFails(p)
  \/ \E p \in Paths : ScanFileFails(p)
  \/ \E p \in Paths : TickFsFails(p)
  \/ \E p \in Paths : OneShotFsFails(p)

SpecFs == Init /\ [][NextFs]_vars

\* ------------------------------------------ the projects directory missing
\* the watch service is started before the projects directory exists; once it
\* is created the writers log their sessions; one-shot runs happen at any time
InitRoot == InitWith(FALSE) /\ call = NoCall

NextRoot ==
  \/ RootAppears
  \/ \E p \in Paths : AppendNext(p)
  \/ Age
  \/ ~rootExists /\ ScanExistingFiles
  \/ PeriodicScan
  \/ OneShotNoRoot
  \/ OneShotRun

\* a file written since the watch service last processed it
AwaitsTick(p) == rootExists /\ wpc = "watching" /\ recent[p] /\ dirty[p]

\* setInterval fires the tick every 10 seconds for as long as the service runs:
\* weak fairness of the tick, whose steps change the state whenever a file
\* awaits it
TickFairness ==
  \/ []<>(~\E p \in Paths : AwaitsTick(p))
  \/ []<><<PeriodicScan>>_vars

SpecRoot == InitRoot /\ [][NextRoot]_vars /\ TickFairness

\* ------------------------------------------- the parser's functions on their own
\* Each function of the parser called once with arguments drawn from bounded sets.
MaxOver == 2
MaxSlug == 3
MaxItems == 3

programVars == <<files, recent, writes, ages, rootExists, db, watchVars, oneShotVars,
                 ghostVars, restartVars, serverVars>>

\* a text of n units; the units past the first lim differ from those before
Filler(n, lim) == [i \in 1..n |-> IF i <= lim THEN "a" ELSE "b"]

\* lengths around a limit
Lengths(lim) == {0, 1} \cup ((lim - 4)..(lim + MaxOver))

\* the texts of at most n units over an alphabet
RECURSIVE TextsUpTo(_, _)
TextsUpTo(alphabet, n) ==
  IF n = 0 THEN {<<>>}
  ELSE LET shorter == TextsUpTo(alphabet, n - 1) IN
       shorter \cup {Append(t, c) : t \in shorter, c \in alphabet}

ToolNames == {"Bash", "Read", "Write", "Edit", "Grep", "Glob", "Task", "WebFetch", "TodoWrite"}
RecognizedTools == {"Bash", "Read", "Write", "Edit", "Grep", "Glob", "Task"}

PreviewInputs == {NoInput} \cup {BashInput(Filler(n, MaxCommandPreview)) :
                                   n \in Lengths(MaxCommandPreview)}

ToolPreviewCalls ==
  {[NoCall EXCEPT !.fn = "extractToolCalls", !.name = name, !.input = input] :
     name \in ToolNames, input \in PreviewInputs}

PreviewItems == {TextItem(<<"x">>), TextItem(<<>>), TextItem(Filler(MaxPreview - 1, MaxPreview)),
                 ToolUse("t1", "Bash", NoInput)}

PreviewContents ==
  {StrContent(Filler(n, MaxPreview)) : n \in Lengths(MaxPreview)}
  \cup {ArrContent(items) : items \in TextsUpTo(PreviewItems, MaxItems)}

TextPreviewCalls ==
  {[NoCall EXCEPT !.fn = "extractTextPreview", !.content = content] :
     content \in PreviewContents}

ExampleSlug == <<"-", "h", "o", "m", "e", "-", "u", "s", "e", "r", "-", "c", "o", "d", "e", "-",
                 "p", "r", "o", "j", "e", "c", "t">>

Slugs == TextsUpTo({"-", "a", "."}, MaxSlug) \cup {ExampleSlug}

ProjectPathCalls ==
  {[NoCall EXCEPT !.fn = "extractProjectPath", !.path = path] :
     path \in {FilePath(slug, "s1", TRUE) : slug \in Slugs}
              \cup {PathOutside(slug, "s1", TRUE) : slug \in Slugs}}

InitPure ==
  /\ InitWith(TRUE)
  /\ call \in ToolPreviewCalls \cup TextPreviewCalls \cup ProjectPathCalls

\* extractToolCalls on an array content of one tool_use segment
ApplyToolCalls ==
  /\ call.fn = "extractToolCalls" /\ ~call.done
  /\ \E calls \in {extractToolCalls(ArrContent(<<ToolUse("t1", call.name, call.input)>>))} :
       call' = [call EXCEPT !.done = TRUE, !.out = calls[1].inputPreview]
  /\ UNCHANGED programVars

\* extractTextPreview with the default maxLength
ApplyTextPreview ==
  /\ call.fn = "extractTextPreview" /\ ~call.done
  /\ call' = [call EXCEPT !.done = TRUE, !.out = extractTextPreview(call.content, MaxPreview)]
  /\ UNCHANGED programVars

ApplyProjectPath ==
  /\ call.fn = "extractProjectPath" /\ ~call.done
  /\ call' = [call EXCEPT !.done = TRUE, !.out = extractProjectPath(call.path)]
  /\ UNCHANGED programVars

NextPure == ApplyToolCalls \/ ApplyTextPreview \/ ApplyProjectPath
SpecPure == InitPure /\ [][NextPure]_vars

\* ------------------------------------------------ parseEntry on its own
\* the entries parseEntry is called with: every combination of kind, ids,
\* timestamp, message payload and content
EntryKinds == {"user", "assistant", "queue-operation", "unknown"}

EntryContents ==
  {NoContent, StrContent(<<"x">>),
   ArrContent(<<TextItem(<<"o", "k">>), ToolUse("tu1", "Bash", BashInput(<<"l", "s">>))>>),
   ArrContent(<<ToolUse(Undefined, "Bash", NoInput), ToolUse("tu2", Undefined, NoInput),
                ToolUse("tu3", "Grep", NoInput), TextItem(<<"x">>),
                ToolUse("tu4", "Read", NoInput)>>),
   OtherContent, ArrContent(<<NullItem>>)}

ParseEntries ==
  {[Entry(type, uuid, ts, msgId, content) EXCEPT !.hasMessage = has] :
     type \in EntryKinds, uuid \in {Undefined, "a"}, ts \in {Undefined, "t1"},
     msgId \in {Undefined, "m1"}, content \in EntryContents, has \in BOOLEAN}

ParseEntryCalls ==
  {[NoCall EXCEPT !.fn = "parseEntry", !.entry = entry, !.sid = sid] :
     entry \in ParseEntries, sid \in {"s1", "s2"}}

\* parseEntry(entry, sessionId): it returns null, returns a message or raises
ApplyParseEntry ==
  /\ call.fn = "parseEntry" /\ ~call.done
  /\ call' = IF parseEntryIsNull(call.entry)
               THEN [call EXCEPT !.done = TRUE, !.result = "null"]
             ELSE IF parseEntryThrows(call.entry)
               THEN [call EXCEPT !.done = TRUE, !.result = "throws"]
             ELSE [call EXCEPT !.done = TRUE, !.result = "message",
                               !.out = <<parseEntry(call.entry, call.sid, "now0")>>]
  /\ UNCHANGED programVars

\* the session id each trigger of the watch service derives for a file
SessionIdPaths ==
  {F1, F2, FilePath(<<"-", "h", "-", "p">>, "notes", FALSE),
   FilePath(<<"-", "h", "-", "q">>, "agent-1", FALSE)}

SessionIdCalls == {[NoCall EXCEPT !.fn = "sessionId", !.path = p] : p \in SessionIdPaths}

\* scanExistingFiles: extractSessionId(file), the file's name
ScanDerivesId ==
  /\ call.fn = "sessionId" /\ call.ids.scan = ""
  /\ call' = [call EXCEPT !.ids.scan = extractSessionId(call.path, FALSE)]
  /\ UNCHANGED programVars

\* the add and change listeners: extractSessionId(filePath), the whole path
EventDerivesId ==
  /\ call.fn = "sessionId" /\ call.ids.event = ""
  /\ call' = [call EXCEPT !.ids.event = extractSessionId(call.path, TRUE)]
  /\ UNCHANGED programVars

\* the periodic re-scan: extractSessionId(file), the file's name
TickDerivesId ==
  /\ call.fn = "sessionId" /\ call.ids.tick = ""
  /\ call' = [call EXCEPT !.ids.tick = extractSessionId(call.path, FALSE)]
  /\ UNCHANGED programVars

InitParse ==
  /\ InitWith(TRUE)
  /\ call \in ParseEntryCalls \cup SessionIdCalls

NextParse == ApplyParseEntry \/ ScanDerivesId \/ EventDerivesId \/ TickDerivesId
SpecParse == InitParse /\ [][NextParse]_vars

\* the watch service with restarts
NextRestart == Next \/ Restart
SpecRestart == Init /\ [][NextRestart]_vars

\* ------------------------- the two programs as processes sharing the store
\* what the watch service's loop in progress does with an exception
OnThrow == IF wpc = "tick" THEN "skipdir" ELSE "continue"

\* the watch service after a statement or a file: the loop in progress goes on,
\* ends, or (an exception in a listener, which nothing catches) ends the process
WatchAfter(m, queue) ==
  /\ wH' = m.h
  /\ wQueue' = queue
  /\ wpc' = IF m.threw /\ wpc = "event" THEN "crashed"
            ELSE IF ~m.h.active /\ queue = <<>> THEN "watching"
            ELSE wpc

\* scanExistingFiles begins
ScanStart ==
  /\ wpc = "init"
  /\ rootExists
  /\ wpc' = "scan"
  /\ wQueue' = ByName(ScanOrder)
  /\ UNCHANGED <<envVars, db, filePositions, processedMessages, wH, ghostVars,
                 restartVars, oneShotVars>>

\* the watcher's add/change listener begins for one file
EventStart(p) ==
  /\ wpc = "watching"
  /\ dirty[p]
  /\ wpc' = "event"
  /\ wQueue' = <<[path |-> p, sid |-> extractSessionId(p, TRUE)]>>
  /\ UNCHANGED <<envVars, db, filePositions, processedMessages, wH, ghostVars,
                 restartVars, oneShotVars>>

\* a tick of the periodic re-scan begins
TickStart ==
  /\ wpc = "watching"
  /\ \E p \in Paths : recent[p]
  /\ wpc' = "tick"
  /\ wQueue' = ByName(SelectSeq(ScanOrder, LAMBDA p : recent[p]))
  /\ UNCHANGED <<envVars, db, filePositions, processedMessages, wH, ghostVars,
                 restartVars, oneShotVars>>

\* the loop in progress calls processJsonlFile on its next file: stat and read
WatchBeginFile ==
  /\ wpc \in {"scan", "event", "tick"}
  /\ ~wH.active
  /\ wQueue # <<>>
  /\ LET e == wQueue[1]
         m == BeginWatch(WatchMachine, e.path, e.sid, files[e.path], recent[e.path], Now)
     IN /\ WatchAfter(m, Tail(wQueue))
        /\ dirty' = [dirty EXCEPT ![e.path] = FALSE]
  /\ UNCHANGED <<envVars, db, filePositions, processedMessages, lastRead, firstSeen,
                 firstMsg, firstTc, restartVars, oneShotVars>>

\* the next statement of the watch service's invocation in flight
WatchStep ==
  /\ wH.active
  /\ LET m == StepOp(WatchMachine) IN
       /\ db' = m.db
       /\ processedMessages' = m.seen
       /\ filePositions' = m.pos
       /\ firstMsg' = m.firstMsg
       /\ firstTc' = m.firstTc
       /\ WatchAfter(m, IF m.threw THEN RestOfQueue(<<[path |-> wH.path]>> \o wQueue,
                                                    TRUE, OnThrow)
                        ELSE wQueue)
  /\ UNCHANGED <<envVars, lastRead, dirty, firstSeen, restartVars, oneShotVars>>

OneShotMachine ==
  [Machine(db, oProcessed, filePositions, oH, firstMsg, firstTc) EXCEPT !.report = oReport]

\* the one-shot program after a statement or a file: main goes on, or the store
\* is closed and the process exits
OneShotAfter(m, queue) ==
  /\ oH' = m.h
  /\ oReport' = m.report
  /\ oQueue' = IF m.threw THEN <<>> ELSE queue
  /\ opc' = IF m.threw \/ (~m.h.active /\ queue = <<>>) THEN "off" ELSE opc
  /\ runCounts' = IF ~m.threw /\ ~m.h.active /\ queue = <<>>
                    THEN Append(runCounts, Counts(m.db))
                  ELSE runCounts
  /\ exitCodes' = IF m.threw THEN Append(exitCodes, 1)
                  ELSE IF ~m.h.active /\ queue = <<>> THEN Append(exitCodes, 0)
                  ELSE exitCodes

\* the one-shot program is started: a new process with an empty dedup set
OneShotStart ==
  /\ opc = "off"
  /\ rootExists
  /\ runs < MaxConcRuns
  /\ opc' = "running"
  /\ runs' = runs + 1
  /\ oProcessed' = {}
  /\ oQueue' = ByName(ScanOrder)
  /\ oReport' = <<>>
  /\ UNCHANGED <<envVars, db, watchVars, ghostVars, restartVars, oH, runCounts, oRead,
                 exitCodes>>

\* main calls processJsonlFile on its next file: the whole file is read
OneShotBeginFile ==
  /\ opc = "running"
  /\ ~oH.active
  /\ oQueue # <<>>
  /\ LET e == oQueue[1]
         m == BeginOneShot(OneShotMachine, e.path, e.sid, files[e.path], recent[e.path], Now)
     IN /\ OneShotAfter(m, Tail(oQueue))
        /\ oRead' = [oRead EXCEPT ![e.path] = Len(files[e.path])]
  /\ UNCHANGED <<envVars, db, watchVars, ghostVars, restartVars, oProcessed, runs>>

\* the next statement of the one-shot program's invocation in flight
OneShotStep ==
  /\ oH.active
  /\ LET m == StepOp(OneShotMachine) IN
       /\ db' = m.db
       /\ oProcessed' = m.seen
       /\ firstMsg' = m.firstMsg
       /\ firstTc' = m.firstTc
       /\ OneShotAfter(m, oQueue)
  /\ UNCHANGED <<envVars, watchVars, lastRead, dirty, firstSeen, restartVars, runs, oRead>>

\* writers log their sessions line by line while the two programs run
NextConc ==
  \/ \E p \in Paths : AppendNext(p)
  \/ ScanStart
  \/ \E p \in Paths : EventStart(p)
  \/ TickStart
  \/ WatchBeginFile
  \/ WatchStep
  \/ OneShotStart
  \/ OneShotBeginFile
  \/ OneShotStep

SpecConc == Init /\ [][NextConc]_vars

\* --------------------------- the watch service, statement by statement, alone
\* the watcher's listener begins for a file, whether written since or not
EventFires(p) ==
  /\ wpc = "watching"
  /\ files[p] # <<>>
  /\ wpc' = "event"
  /\ wQueue' = <<[path |-> p, sid |-> extractSessionId(p, TRUE)]>>
  /\ UNCHANGED <<envVars, db, filePositions, processedMessages, wH, ghostVars,
                 restartVars, oneShotVars>>

NextTrigger ==
  \/ \E p \in Paths : AppendLine(p)
  \/ \E p \in Paths : AppendHead(p)
  \/ \E p \in Paths : AppendTail(p)
  \/ Age
  \/ ScanStart
  \/ \E p \in Paths : EventFires(p)
  \/ TickStart
  \/ WatchBeginFile
  \/ WatchStep

SpecTrigger == Init /\ [][NextTrigger]_vars

\* ------------------------------------------------------------------ shutdown
\* SIGINT or SIGTERM with the handlers registered: Node runs a signal handler as
\* a callback of its own, after the callback in progress has returned; the
\* handler closes the store and exits with code 0
Shutdown ==
  /\ wpc = "watching"
  /\ wpc' = "exited0"
  /\ UNCHANGED <<envVars, db, filePositions, processedMessages, wH, wQueue, ghostVars,
                 restartVars, oneShotVars>>

\* SIGINT or SIGTERM before the handlers are registered, which main does after
\* scanExistingFiles has returned: the signal's default action ends the process
\* where it stands, closeDb is not called and the exit status is the signal's
KilledAtStartup ==
  /\ wpc \in {"init", "scan"}
  /\ wpc' = "killed"
  /\ UNCHANGED <<envVars, db, filePositions, processedMessages, wH, wQueue, ghostVars,
                 restartVars, oneShotVars>>

NextSignal == NextTrigger \/ Shutdown \/ KilledAtStartup
SpecSignal == Init /\ [][NextSignal]_vars

\* ------------------------------------------------ the dashboard server's poll
\* the timestamps of the scenarios in ascending text order: those logged, then
\* the wall-clock readings
TimestampOrder == <<"t1", "t2", "t3", "t4", "t5">> \o Clock
TimestampRank(t) == CHOOSE i \in 1..Len(TimestampOrder) : TimestampOrder[i] = t

\* SELECT ... FROM tool_calls tc JOIN sessions s ON tc.session_id = s.id
NewCallRow(d, tc) ==
  [id |-> tc.id, tool_name |-> tc.tool_name, input_preview |-> tc.input_preview,
   timestamp |-> tc.timestamp, status |-> tc.status,
   project_path |-> (CHOOSE s \in d.sessions : s.id = tc.session_id).project_path]
ToolCallsJoined(d) ==
  {NewCallRow(d, tc) : tc \in {t \in d.tool_calls : \E s \in d.sessions : s.id = t.session_id}}

\* ORDER BY tc.timestamp DESC LIMIT n: the n rows with the latest timestamps,
\* latest first, rows with equal timestamps in either order
LatestFirst(rows, n) ==
  LET k == IF n < Cardinality(rows) THEN n ELSE Cardinality(rows) IN
  {q \in [1..k -> rows] :
     /\ \A i, j \in 1..k : i < j =>
          /\ q[i] # q[j]
          /\ TimestampRank(q[i].timestamp) >= TimestampRank(q[j].timestamp)
     /\ \A r \in rows \ {q[i] : i \in 1..k} :
          \A i \in 1..k : TimestampRank(q[i].timestamp) >= TimestampRank(r.timestamp)}

\* one run of the server's 2-second interval callback: when the tool_calls
\* count is above the remembered one, the latest rows are broadcast as one
\* update and the count is remembered
ServerPoll ==
  /\ LET currentCount == Cardinality(db.tool_calls) IN
     IF currentCount > server.lastToolCallCount
       THEN \E newCalls \in LatestFirst(ToolCallsJoined(db),
                                        currentCount - server.lastToolCallCount) :
              server' = [lastToolCallCount |-> currentCount,
                         updates |-> Append(server.updates, newCalls),
                         atBroadcast |-> {t.id : t \in db.tool_calls}]
       ELSE server' = server
  /\ UNCHANGED <<files, recent, writes, ages, rootExists, pureVars, db, watchVars,
                 oneShotVars, ghostVars, restartVars>>

\* the watch service and the log writers, the server polling the store
NextServer ==
  \/ Next
  \/ ServerPoll

SpecServer == Init /\ [][NextServer]_vars

\* ------------------------------------------------------------------ claims
StoredIds(table) == {r.id : r \in table}
RowsOf(table, sessionId) == {r \in table : r.session_id = sessionId}

\* C2: of the lines the watch service processes in one lifetime that yield the
\* same message id, only the first is stored: for every id, exactly one message
\* row has it, and that row is the row of the first line processed with that id.
DedupFirstLineWins ==
  \A f \in firstSeen : {r \in db.messages : r.id = f.id} = {f}

\* two lines with id "a" and different content were both processed
DedupWitness ==
  /\ files[F1] = Whole(UserX) /\ filePositions[F1] = 2
  /\ files[F2] = Whole(UserY) /\ filePositions[F2] = 2
  /\ Cardinality({r \in db.messages : r.id = "a"}) = 1

\* C3: the range an invocation reads of a file starts where the range the
\* previous invocation read of it ended, and an invocation on a file not written
\* since the last one reads nothing and processes no line.
OffsetResume ==
  [][\A p \in Paths :
       /\ lastRead'[p] # lastRead[p] => lastRead'[p].from = lastRead[p].to
       /\ ~dirty[p] => lastRead'[p] = lastRead[p]]_vars

\* a file was read, appended to, and read again from where the first read ended
OffsetResumeWitness ==
  \E p \in Paths : lastRead[p].from = 2 /\ lastRead[p].to = 4 /\ ~dirty[p]

\* C4: the tracked offset of a file never decreases.
OffsetMonotone ==
  [][\A p \in Paths : filePositions'[p] >= filePositions[p]]_vars

\* a file was truncated below its tracked offset and processed again
OffsetMonotoneWitness ==
  \E p \in Paths : Len(files[p]) < filePositions[p] /\ ~dirty[p]

\* C6: every session row's totals equal the numbers of message rows and
\* tool-call rows stored for the session.
TotalsMatchRows ==
  \A s \in db.sessions :
    /\ s.total_messages = Cardinality(RowsOf(db.messages, s.id))
    /\ s.total_tool_calls = Cardinality(RowsOf(db.tool_calls, s.id))

\* the complete lines of a file's content
CompleteLinesOf(content) ==
  {content[i].line : i \in {j \in 1..Len(content) : content[j].part = "t"}}

\* C7: once the watch service has caught up with a file (its offset is the
\* file's size, so that no later event or tick reads it again), every complete
\* well-formed user/assistant line of the file is stored as a message row.
NoMissingRecords ==
  \A p \in Paths :
    (wpc = "watching" /\ filePositions[p] = Len(files[p])) =>
      \A l \in CompleteLinesOf(files[p]) :
        (parseJsonlLine(l) /\ ~parseEntryIsNull(l)) =>
          MessageId(l, extractSessionId(p, FALSE)) \in StoredIds(db.messages)

\* C9: after a restart of the watch service, every message row and tool-call row
\* that was stored at the restart is still the only row with its id and is
\* unchanged, and no statement has raised an error.
RestartSafe ==
  restarts > 0 =>
    /\ \A r \in preRestart.messages : {x \in db.messages : x.id = r.id} = {r}
    /\ \A r \in preRestart.tool_calls : {x \in db.tool_calls : x.id = r.id} = {r}
    /\ db.err = "ok"

\* the rescan after a restart has processed a message whose tool call the
\* store already held
RestartWitness ==
  /\ restarts > 0
  /\ \E t \in preRestart.tool_calls : t.message_id \in processedMessages

\* C10: inserting a message or tool call whose id is already stored raises no
\* error and leaves the stored row as it was: every stored row is the row of the
\* first insert with its id, and no two rows of a table share an id.
InsertIfAbsent ==
  /\ db.err = "ok"
  /\ \A f \in firstMsg : {r \in db.messages : r.id = f.id} = {f}
  /\ \A f \in firstTc : {r \in db.tool_calls : r.id = f.id} = {f}

\* after a restart, insertMessage was called for id "a" with a row that differs
\* from the stored one
InsertIfAbsentWitness ==
  /\ restarts > 0
  /\ "a" \in processedMessages
  /\ filePositions[F1] = 2 /\ files[F1] = Whole(UserX)
  /\ \E r \in db.messages : r.id = "a" /\ r.session_id = extractSessionId(F2, FALSE)

\* C1: a one-shot run over the file set of an earlier run leaves the aggregate
\* counts of the store as that run left them: the numbers of message rows and
\* tool-call rows and every session row's totals.
IdempotentReingestion ==
  \A i \in 1..Len(runCounts) : runCounts[i] = runCounts[1]

\* a second run has ended over files that hold messages and tool calls
IdempotentWitness ==
  /\ Len(runCounts) = 2
  /\ runCounts[2].messages = 2
  /\ runCounts[2].tool_calls > 0

\* the invocations in flight of the two programs
InFlight == {h \in {wH, oH} : h.active /\ h.ops # <<>>}

\* C5: in both programs, whenever insertMessage is about to be called the
\* session row of its session id is in the store, and whenever insertToolCall
\* is about to be called its owning message row is; no insert raises a
\* foreign-key violation.
ForeignKeyOrdering ==
  /\ db.err # "fk"
  /\ \A h \in InFlight :
       LET o == Head(h.ops) IN
       /\ o.op = "msg" => HasId(db.sessions, o.row.session_id)
       /\ o.op = "tc" => /\ HasId(db.messages, o.row.message_id)
                         /\ HasId(db.sessions, o.row.session_id)

\* the first-ever ingestion by the watch service has reached a tool-call insert
\* while the one-shot program is also part-way through a file
ForeignKeyWitness ==
  /\ wH.active /\ wH.ops # <<>> /\ Head(wH.ops).op = "tc"
  /\ db.tool_calls = {}
  /\ oH.active /\ oH.ops # <<>> /\ Head(oH.ops).op = "msg"

\* the session totals a single process leaves that ingests the files as they are
SingleProcessTotals ==
  Counts(RunQueue("oneshot", Machine(EmptyDb, {}, filePositions, Idle, {}, {}),
                  ByName(ScanOrder), files, recent, Now, "abort").db).totals

\* both programs have nothing left to do: the one-shot program has exited after
\* a run that read every file to its present end, the watch service waits for
\* events and has processed every file to its present end
Quiescent ==
  /\ opc = "off" /\ runs > 0
  /\ wpc = "watching"
  /\ \A p \in Paths : /\ filePositions[p] = Len(files[p]) /\ ~dirty[p]
                       /\ oRead[p] = Len(files[p])

\* C8: with the two programs' statements interleaved, no message or tool call
\* is stored twice and, once both are quiescent, every session's totals are those
\* a single process ingesting the files would leave.
ConcurrentCounts ==
  /\ \A r1, r2 \in db.messages : r1.id = r2.id => r1 = r2
  /\ \A r1, r2 \in db.tool_calls : r1.id = r2.id => r1 = r2
  /\ Quiescent => Counts(db).totals = SingleProcessTotals

\* the session row an upsert statement of an invocation binds, if the
\* invocation's next statement is an upsert that runs
UpsertArg(h) ==
  IF ~h.active \/ h.ops = <<>> THEN {}
  ELSE IF Head(h.ops).op = "upsert0" THEN {ProvisionalRow(h)}
  ELSE IF Head(h.ops).op = "final" /\ (h.msgCount > 0 \/ h.tcCount > 0) THEN {FinalRow(h)}
  ELSE {}

\* what a step of an invocation (from h to hn) that runs an upsert does to the
\* session row: a new row is the bound row; an existing row takes the bound
\* last_activity, is_active, totals and metadata and keeps the rest
UpsertEffect(h, hn, d, dn) ==
  hn # h =>
    \A s \in UpsertArg(h) :
      \E new \in dn.sessions :
        /\ new.id = s.id
        /\ new.last_activity = s.last_activity
        /\ new.is_active = s.is_active
        /\ new.total_messages = s.total_messages
        /\ new.total_tool_calls = s.total_tool_calls
        /\ new.metadata = s.metadata
        /\ \A old \in d.sessions : old.id = s.id => new.started_at = old.started_at
        /\ ~HasId(d.sessions, s.id) => new = s

\* C11: an upsert on a stored session id refreshes last_activity, is_active,
\* total_messages, total_tool_calls and metadata and leaves started_at as it
\* was; a session's started_at never changes once the session is stored.
UpsertKeepsStartedAt ==
  [][/\ UpsertEffect(wH, wH', db, db')
     /\ UpsertEffect(oH, oH', db, db')
     /\ \A old \in db.sessions :
          \E new \in db'.sessions : new.id = old.id /\ new.started_at = old.started_at]_vars

\* a final upsert that bound a first timestamp as started_at ran on a session
\* stored with another started_at
UpsertWitness ==
  \E s \in db.sessions :
    /\ s.total_messages > 0
    /\ s.last_activity \in {"t1", "t2", "t3"}
    /\ s.started_at \notin {"t1", "t2", "t3"}

\* the lines of a file's content (every line whole)
LinesIn(content) == [i \in 1..(Len(content) \div 2) |-> content[2 * i].line]

\* the positions of the lines of a file that parse to a user/assistant message
ValidAt(content) ==
  {i \in 1..Len(LinesIn(content)) :
     parseJsonlLine(LinesIn(content)[i]) /\ ~parseEntryIsNull(LinesIn(content)[i])}

\* the messages of a file have distinct ids
DistinctIds(content, sid) ==
  \A i, j \in ValidAt(content) :
    MessageId(LinesIn(content)[i], sid) = MessageId(LinesIn(content)[j], sid) => i = j

\* every line of a file is text that is not JSON, a record of another kind, or
\* a user/assistant record shaped as the parser expects
WellShaped(content) ==
  \A i \in 1..Len(LinesIn(content)) :
    ~(parseJsonlLine(LinesIn(content)[i]) /\ parseEntryThrows(LinesIn(content)[i]))

\* an ingestion of the file by either program has run to its end
Ingested == wpc = "watching" \/ runs > 0

\* C12: when lines that are not JSON stand between valid user/assistant lines
\* with distinct ids, ingestion stores exactly one message per valid line, the
\* invalid lines are skipped, and the run ends normally.
MalformedLineResilience ==
  (Ingested /\ WellShaped(files[F1]) /\ DistinctIds(files[F1], extractSessionId(F1, FALSE))) =>
    /\ Cardinality(db.messages) = Cardinality(ValidAt(files[F1]))
    /\ \A i \in ValidAt(files[F1]) :
         MessageId(LinesIn(files[F1])[i], extractSessionId(F1, FALSE)) \in StoredIds(db.messages)
    /\ db.err = "ok"
    /\ wpc # "crashed"
    /\ Len(runCounts) = runs

\* one invalid line between two valid lines was ingested: 2 messages
MalformedLineWitness ==
  /\ files[F1] = UnitsOf(<<UserX, Garbage, AsstB>>)
  /\ wpc = "watching"
  /\ runs > 0
  /\ Cardinality(db.messages) = 2

\* C13: parsing a line raises no exception, whatever the line: the parser
\* returns a message or null.
ParserNeverThrows == db.err # "parser"

\* C14: a store write failure while the watch service processes a file does
\* not stop the service, whichever trigger started the invocation.
WatcherSurvivesStoreFailure == wpc # "crashed"

\* C15: a store write failure during a one-shot run does not crash the
\* process: every run started has gone through the remaining files and ended
\* with its final totals.
OneShotSurvivesStoreFailure == Len(runCounts) = runs

\* C16: a filesystem access failure on one directory or file never aborts a
\* scan: the watch service keeps running and every one-shot run ends normally.
FsFailureNeverAborts ==
  /\ wpc # "crashed"
  /\ Len(runCounts) = runs

\* a step of the periodic re-scan with the projects directory present
TickWithRoot ==
  /\ rootExists
  /\ wpc = "watching"
  /\ UNCHANGED <<envVars, oneShotVars>>

\* every message of the whole lines of the recently modified files is stored,
\* under a session row of its file
RecentFilesIngested(d) ==
  \A p \in Paths :
    recent[p] =>
      \A i \in ValidAt(files[p]) :
        LET sid == extractSessionId(p, FALSE) IN
        /\ MessageId(LinesIn(files[p])[i], sid) \in StoredIds(d.messages)
        /\ sid \in StoredIds(d.sessions)

\* the watch service has processed the file since its last write and every
\* message of its whole lines is stored
TickIngested(p) ==
  /\ ~dirty[p]
  /\ \A i \in ValidAt(files[p]) :
       MessageId(LinesIn(files[p])[i], extractSessionId(p, FALSE)) \in StoredIds(db.messages)

\* C17: while the projects directory is missing every one-shot run exits with
\* a non-zero code and leaves the store untouched, and the watch service keeps
\* running; once the directory exists, a tick ingests the recently modified
\* files: a file written under it is ingested by a later tick, unless five
\* minutes pass first.
MissingRootHandled ==
  /\ [](wpc # "crashed")
  /\ [](~rootExists => /\ db = EmptyDb
                       /\ Len(exitCodes) = runs
                       /\ \A i \in 1..Len(exitCodes) : exitCodes[i] # 0)
  /\ [][TickWithRoot => RecentFilesIngested(db')]_vars
  /\ \A p \in Paths : AwaitsTick(p) ~> (~recent[p] \/ TickIngested(p))

\* the service started and a one-shot run exited with code 1 while the
\* directory was missing; the directory appeared, a line was logged and a tick
\* stored it
MissingRootWitness ==
  /\ rootExists
  /\ wpc = "watching"
  /\ exitCodes # <<>> /\ exitCodes[1] = 1
  /\ \E p \in Paths :
       /\ recent[p] /\ ~dirty[p]
       /\ filePositions[p] = Len(files[p])
       /\ ValidAt(files[p]) # {}
       /\ \A i \in ValidAt(files[p]) :
            MessageId(LinesIn(files[p])[i], extractSessionId(p, FALSE)) \in StoredIds(db.messages)

\* C18: the is_active flag of every session row tells whether the modification
\* time of its file was within 5 minutes of the invocation that last touched
\* the row (in the batch scenario the file is not modified after the start).
ActiveFlagPolicy ==
  \A p \in Paths :
    \A s \in db.sessions :
      s.id = extractSessionId(p, FALSE) => s.is_active = recent[p]

\* the tool_use segments of the messages of a file, in order
RECURSIVE ToolUsesIn(_, _)
ToolUsesIn(lines, sid) ==
  IF lines = <<>> THEN <<>>
  ELSE (IF parseJsonlLine(lines[1]) /\ ~parseEntryIsNull(lines[1])
          THEN parseEntry(lines[1], sid, "").toolCalls ELSE <<>>)
       \o ToolUsesIn(Tail(lines), sid)

\* the tool_use segments of a file have distinct ids
DistinctToolIds(content, sid) ==
  LET tcs == ToolUsesIn(LinesIn(content), sid) IN
  \A i, j \in 1..Len(tcs) : tcs[i].id = tcs[j].id => i = j

ReportedEqualsAdded ==
  \A i \in 1..Len(oReport) :
    /\ oReport[i].messages = oReport[i].addedMessages
    /\ oReport[i].toolCalls = oReport[i].addedToolCalls

\* ------------------------------------------------------------ parser contracts
\* the first n units of a text, the whole text when it has no more
FirstUnits(t, n) == IF Len(t) <= n THEN t ELSE SubSeq(t, 1, n)

\* C21: the preview of a Bash tool call with a command string is the command when
\* it has at most 200 units and its first 200 units otherwise; the preview of a
\* tool call whose name is outside the recognized set is the JSON serialisation
\* of its input cut to its first 200 units.
ToolPreviewFormat ==
  (call.fn = "extractToolCalls" /\ call.done) =>
    /\ (call.name = "Bash" /\ "command" \in call.input.has) =>
         /\ Len(call.input.command) <= 200 => call.out = call.input.command
         /\ Len(call.input.command) > 200 =>
              /\ Len(call.out) = 200
              /\ \A i \in 1..200 : call.out[i] = call.input.command[i]
    /\ call.name \notin RecognizedTools => call.out = FirstUnits(call.input.json, 200)

\* previews were made of a Bash command of more than 200 units: by the Bash rule
\* (cut to 200) or by the rule for unrecognized names (serialisation cut to 200)
ToolPreviewWitness ==
  /\ call.fn = "extractToolCalls" /\ call.done
  /\ Len(call.input.command) = MaxCommandPreview + 1
  /\ Len(call.out) = MaxCommandPreview
  /\ \/ call.name = "Bash" /\ call.out[MaxCommandPreview] = "a"
     \/ call.name = "WebFetch" /\ call.out[1] = "{"

\* the texts of the text-type segments of an array content, in order; with or
\* without the segments whose text is empty
RECURSIVE SegmentTexts(_, _)
SegmentTexts(items, withEmpty) ==
  IF items = <<>> THEN <<>>
  ELSE (IF items[1].type = "text" /\ (withEmpty \/ Len(items[1].text) > 0)
          THEN <<items[1].text>> ELSE <<>>)
       \o SegmentTexts(Tail(items), withEmpty)

\* the parts joined with one newline between neighbours
JoinedWithNewlines(parts) ==
  IF parts = <<>> THEN <<>>
  ELSE LET Acc[i \in 1..Len(parts)] ==
             IF i = 1 THEN parts[1] ELSE Acc[i - 1] \o <<"\n">> \o parts[i]
       IN Acc[Len(parts)]

\* the preview is the text when it has at most 500 units, else its first 500
\* units and the marker, 503 units in all
PreviewOf(out, text) ==
  /\ Len(text) <= 500 => out = text
  /\ Len(text) > 500 =>
       /\ Len(out) = 503
       /\ SubSeq(out, 1, 500) = SubSeq(text, 1, 500)
       /\ SubSeq(out, 501, 503) = <<".", ".", ".">>

\* C22 as stated: the preview is the text cut to 500 units plus the marker "...",
\* where the text of an array content is the newline-joined concatenation of
\* all its text-type segments in order.
TextPreviewAllSegments ==
  (call.fn = "extractTextPreview" /\ call.done) =>
    PreviewOf(call.out, IF call.content.kind = "str" THEN call.content.str
                        ELSE JoinedWithNewlines(SegmentTexts(call.content.items, TRUE)))

\* C22: as amended: the preview is the text itself when it has at most 500 units,
\* and otherwise its first 500 units followed by "..." (503 units); the text of an
\* array content is the newline-joined concatenation, in order, of its text-type
\* segments whose text is not empty.
TextPreviewTruncation ==
  (call.fn = "extractTextPreview" /\ call.done) =>
    PreviewOf(call.out, IF call.content.kind = "str" THEN call.content.str
                        ELSE JoinedWithNewlines(SegmentTexts(call.content.items, FALSE)))

\* the preview was made of an array content with an empty text segment between
\* two others whose texts, joined, exceed 500 units
TextPreviewWitness ==
  /\ call.fn = "extractTextPreview" /\ call.done
  /\ call.content = ArrContent(<<TextItem(<<"x">>), TextItem(<<>>),
                                 TextItem(Filler(MaxPreview - 1, MaxPreview))>>)
  /\ Len(call.out) = MaxPreview + 3
  /\ SubSeq(call.out, 1, 3) = <<"x", "\n", "a">>

\* a text without the '/' units it starts with
RECURSIVE WithoutLeadingSlashes(_)
WithoutLeadingSlashes(t) ==
  IF t # <<>> /\ t[1] = "/" THEN WithoutLeadingSlashes(Tail(t)) ELSE t

\* the slug with every dash replaced by '/'
DashesReplaced(slug) == [i \in 1..Len(slug) |-> IF slug[i] = "-" THEN "/" ELSE slug[i]]

\* C23: for a path holding projects/<slug>/ the result is the slug with every
\* dash replaced by '/' and exactly one leading '/'; for a path without the
\* marker it is the literal 'unknown'.
ProjectPathDecoding ==
  (call.fn = "extractProjectPath" /\ call.done) =>
    IF call.path.inProjects /\ call.path.slug # <<>>
      THEN /\ call.out # <<>> /\ call.out[1] = "/"
           /\ Len(call.out) > 1 => call.out[2] # "/"
           /\ WithoutLeadingSlashes(call.out)
                = WithoutLeadingSlashes(DashesReplaced(call.path.slug))
      ELSE call.out = <<"u", "n", "k", "n", "o", "w", "n">>

\* the same, for the slugs that do not start with two dashes
ProjectPathDecodingOneDash ==
  (/\ call.fn = "extractProjectPath" /\ call.done
   /\ ~(Len(call.path.slug) >= 2 /\ call.path.slug[1] = "-" /\ call.path.slug[2] = "-")) =>
    ProjectPathDecoding

\* C24: in the watch service, an invocation that finds a file larger than its
\* tracked offset and returns leaves the offset at the size it observed, whatever
\* its lines parsed to; and the range an invocation reads starts at or after the
\* end of the range read before it, so that no line of an earlier range, parsed
\* or not, is read again in the same process.
OffsetSetWhateverParsed ==
  [][\A p \in Paths :
       /\ (/\ dirty[p] /\ ~dirty'[p]
           /\ Len(files[p]) > filePositions[p]
           /\ wpc' # "crashed") => filePositions'[p] = Len(files[p])
       /\ lastRead'[p] # lastRead[p] =>
            /\ lastRead'[p].from >= lastRead[p].to
            /\ lastRead'[p].from = filePositions[p]]_vars

\* the first part of a line was read alone and the offset moved past it; the
\* rest of the line came and was read from there: the line is not stored
OffsetPastPartialLineWitness ==
  /\ files[F1] = Whole(AsstB)
  /\ lastRead[F1] = [from |-> 1, to |-> 2, nlines |-> 2]
  /\ filePositions[F1] = 2
  /\ ~\E r \in db.messages : r.session_id = extractSessionId(F1, FALSE)

\* no file holds more than the watch service has read of it
NothingNew == \A p \in Paths : Len(files[p]) <= filePositions[p]

\* C25: an invocation of the watch service's processJsonlFile on a file whose
\* size is at most its tracked offset (unchanged or truncated) changes nothing:
\* the offset map, the dedup set and every row of the store stay as they were.
\* So does a scan or a tick that finds no file grown.
NoGrowthNoChange ==
  [][/\ \A p \in Paths :
          (WatchEvent(p) /\ Len(files[p]) <= filePositions[p]) =>
            UNCHANGED <<filePositions, processedMessages, db>>
     /\ ((PeriodicScan \/ ScanExistingFiles) /\ NothingNew) =>
          UNCHANGED <<filePositions, processedMessages, db>>]_vars

\* a file was read, truncated and then processed again: its message is still
\* stored and its offset is still the size read
NoGrowthWitness ==
  /\ files[F1] = <<>> /\ ~dirty[F1]
  /\ filePositions[F1] = 2
  /\ "a" \in processedMessages
  /\ \E s \in db.sessions : s.id = extractSessionId(F1, FALSE) /\ s.total_messages = 1

\* C26: a step of the watch service that stores no new message row and no new
\* tool-call row leaves every session row's total_messages, total_tool_calls,
\* last_activity and is_active as they were.
SessionRowKeptWithoutRecords ==
  [][(db'.messages = db.messages /\ db'.tool_calls = db.tool_calls) =>
       \A s \in db.sessions :
         \E t \in db'.sessions :
           /\ t.id = s.id
           /\ t.total_messages = s.total_messages
           /\ t.total_tool_calls = s.total_tool_calls
           /\ t.last_activity = s.last_activity
           /\ t.is_active = s.is_active]_vars

\* C27: an invocation of processJsonlFile that begins on a file already
\* processed since its last write (a second trigger, by an event or by a tick,
\* after the same append) returns at once: it issues no statement and leaves the
\* store, the dedup set and the offsets as the first invocation left them.  A
\* listener or a tick begins only when no invocation is in flight.
DoubleTriggerBenign ==
  [][/\ \A p \in Paths :
          (/\ wQueue # <<>> /\ wQueue[1].path = p /\ wQueue' = Tail(wQueue)
           /\ ~dirty[p]) =>
            /\ ~wH'.active
            /\ UNCHANGED <<db, filePositions, processedMessages>>
     /\ (wpc = "watching" /\ wpc' # "watching") => (~wH.active /\ wQueue = <<>>)
     /\ (wH.active /\ wH'.active) => wH'.path = wH.path]_vars

\* after one append to a file an invocation processed it (one message, offset
\* 2); the invocation a tick then began on it has returned at once, and the tick
\* goes on to the next file
DoubleTriggerWitness ==
  /\ files[F1] = Whole(UserX) /\ ~dirty[F1]
  /\ wpc = "tick" /\ ~wH.active /\ Len(wQueue) = 1 /\ wQueue[1].path = F2
  /\ wH.path = F1 /\ wH.from = 2 /\ wH.size = 2
  /\ filePositions[F1] = 2
  /\ \E s \in db.sessions : s.id = extractSessionId(F1, FALSE) /\ s.total_messages = 1
  /\ \E r \in db.messages : r.id = "a"

\* the complete lines of a file, in on-disk order
LineSeq(content) == SelectSeq(content, LAMBDA u : u.part = "t")

\* the positions of the complete lines of file p that carry the message id
LinesWithId(p, id) ==
  {i \in 1..Len(LineSeq(files[p])) :
     LET l == LineSeq(files[p])[i].line IN
     /\ parseJsonlLine(l) /\ ~parseEntryIsNull(l)
     /\ MessageId(l, extractSessionId(p, FALSE)) = id}

\* C28: in the watch service, when a message row of a file's session is stored,
\* every message row already stored for that session comes from an earlier line
\* of the file, within one batch and across batches; and when a tool-call row is
\* stored, the row of its message is already in the store.
OnDiskOrder ==
  [][/\ \A r \in db'.messages \ db.messages :
          \A p \in Paths :
            r.session_id = extractSessionId(p, FALSE) =>
              /\ LinesWithId(p, r.id) # {}
              /\ \A q \in db.messages :
                   q.session_id = r.session_id =>
                     \E i \in LinesWithId(p, q.id) : \E j \in LinesWithId(p, r.id) : i < j
     /\ \A t \in db'.tool_calls \ db.tool_calls :
          \E r \in db.messages : r.id = t.message_id /\ r.session_id = t.session_id]_vars

\* one batch of two message lines is in flight: the rows of both lines and the
\* tool call of the second are stored, the offset update is next
OnDiskOrderWitness ==
  /\ files[F1] = Whole(UserX) \o Whole(AsstB)
  /\ wH.active /\ wH.path = F1 /\ wH.from = 0 /\ wH.size = 4
  /\ Head(wH.ops).op = "final"
  /\ {r.id : r \in RowsOf(db.messages, extractSessionId(F1, FALSE))} = {"a", "b"}
  /\ {t.message_id : t \in db.tool_calls} = {"b"}

\* C29: a SIGINT or SIGTERM makes the watch service close the store and exit
\* with code 0, and when it does no invocation of processJsonlFile is partly
\* executed and no file of a loop in progress is left unprocessed.
OrderlyShutdown ==
  /\ wpc # "killed"
  /\ wpc = "exited0" => (~wH.active /\ wQueue = <<>>)

\* the same, for the signals that arrive once the handlers are registered
OrderlyShutdownOnceWatching ==
  wpc = "exited0" => (~wH.active /\ wQueue = <<>>)

ParseEntryNullOrMessage ==
  (call.fn = "parseEntry" /\ call.done) =>
    IF (call.entry.type # "user" /\ call.entry.type # "assistant") \/ ~call.entry.hasMessage
      THEN call.result = "null"
      ELSE /\ call.result = "message"
           /\ call.out[1].type = call.entry.type
           /\ call.out[1].sessionId = call.sid

\* the same, for the entries on which parseEntry does not raise
ParseEntryNullOrMessageUnlessRaised ==
  (call.fn = "parseEntry" /\ call.done /\ call.result # "throws") => ParseEntryNullOrMessage

\* the id the claim gives a message: the entry's own id, else the payload's id,
\* else the session id, a dash and the timestamp
ClaimedId(l, sid) ==
  IF l.uuid # Undefined THEN l.uuid
  ELSE IF l.msgId # Undefined THEN l.msgId
  ELSE sid \o "-" \o l.timestamp

\* the first line of a file that is given the id
FirstLineWithId(content, sid, id) ==
  LET at == {i \in 1..Len(LinesIn(content)) : ClaimedId(LinesIn(content)[i], sid) = id}
  IN LinesIn(content)[CHOOSE i \in at : \A j \in at : i <= j]

\* C32: the id of a stored message is the entry's own id when present, else the
\* payload's id when present, else sessionId-timestamp; of the entries of a file
\* that are given the same id (two entries without ids that share a timestamp or
\* both lack one) only the first is stored: one row per id, with the first
\* entry's content.
MessageIdentity ==
  Ingested =>
    LET sid == extractSessionId(F1, FALSE)
        lines == LinesIn(files[F1])
        ids == {ClaimedId(lines[i], sid) : i \in 1..Len(lines)}
    IN /\ StoredIds(db.messages) = ids
       /\ Cardinality(db.messages) = Cardinality(ids)
       /\ \A r \in db.messages :
            r.content_preview
              = extractTextPreview(FirstLineWithId(files[F1], sid, r.id).content, MaxPreview)

\* two entries without ids and with the same timestamp were ingested: one row,
\* with the synthesized id and the first entry's text
MessageIdentityWitness ==
  /\ files[F1] = UnitsOf(<<NoIdX, NoIdY, IdUuid>>)
  /\ Ingested
  /\ Cardinality(db.messages) = 2
  /\ \E r \in db.messages :
       r.id = extractSessionId(F1, FALSE) \o "-" \o "t3" /\ r.content_preview = <<"x">>
  /\ \E r \in db.messages : r.id = "a"

\* the tool-invocation segments of a content that carry an id and a name, in order
InvocationSegments(content) ==
  IF content.kind # "arr" THEN <<>>
  ELSE SelectSeq(content.items,
                 LAMBDA item : item.type = "tool_use" /\ item.id # Undefined
                               /\ item.name # Undefined)

\* C33: the tool calls of a parsed message are the tool-invocation segments of
\* its content that carry both an id and a name, in content order, when the
\* entry's kind is 'assistant'; a user entry, a string content and segments
\* without an id or a name yield no tool call.
ToolCallExtraction ==
  (call.fn = "parseEntry" /\ call.done /\ call.result = "message") =>
    LET calls == call.out[1].toolCalls
        segments == IF call.entry.type = "assistant"
                      THEN InvocationSegments(call.entry.content) ELSE <<>>
    IN /\ Len(calls) = Len(segments)
       /\ \A i \in 1..Len(calls) :
            /\ calls[i].id = segments[i].id
            /\ calls[i].name = segments[i].name
            /\ calls[i].input = segments[i].input

\* an assistant entry whose content has five segments, two of them tool
\* invocations with id and name, was parsed: two tool calls, in content order
ToolCallExtractionWitness ==
  /\ call.fn = "parseEntry" /\ call.done /\ call.result = "message"
  /\ call.entry.type = "assistant" /\ Len(call.entry.content.items) = 5
  /\ Len(call.out[1].toolCalls) = 2
  /\ call.out[1].toolCalls[1].id = "tu3" /\ call.out[1].toolCalls[2].id = "tu4"

\* C34: the initial scan, an add/change watch event and a periodic re-scan tick
\* derive the same session id for the same file, also for a file whose name
\* does not hold the 36-character identifier pattern.
SameSessionIdForEveryTrigger ==
  call.fn = "sessionId" =>
    \A t, u \in {"scan", "event", "tick"} :
      (call.ids[t] # "" /\ call.ids[u] # "") => call.ids[t] = call.ids[u]

\* the triggers agree on every file whose name ends with the 36-character
\* identifier, and the scan and the tick agree on every file
SameSessionIdForIdentifierNames ==
  call.fn = "sessionId" =>
    /\ (call.ids.scan # "" /\ call.ids.tick # "") => call.ids.scan = call.ids.tick
    /\ call.path.hex36 =>
         \A t, u \in {"scan", "event", "tick"} :
           (call.ids[t] # "" /\ call.ids[u] # "") => call.ids[t] = call.ids[u]

\* C35: while the watch service runs, every message id in its dedup set has a
\* message row in the store, also after an insertMessage call that raised an
\* error.
DedupSetAgreesWithStore ==
  wpc # "crashed" => processedMessages \subseteq StoredIds(db.messages)

\* the well-formed user/assistant records among the complete lines of file p
RecordsOf(p) ==
  {u.line : u \in {LineSeq(files[p])[i] : i \in 1..Len(LineSeq(files[p]))}}
    \cap {l \in LinesOf(F1) \cup LinesOf(F2) : parseJsonlLine(l) /\ ~parseEntryIsNull(l)}

\* the record of file p is stored as a message row of p's session
StoredUnderOwnSession(p, l) ==
  \E r \in db.messages :
    /\ r.id = MessageId(l, extractSessionId(p, FALSE))
    /\ r.session_id = extractSessionId(p, FALSE)

\* C36: after a file has been processed, every well-formed user/assistant
\* record in it is represented by a message row whose session_id is that
\* file's session id, also when a file processed earlier in the same process
\* contains a record with the same message id.
RecordsUnderOwnSession ==
  runs > 0 => \A p \in Paths : \A l \in RecordsOf(p) : StoredUnderOwnSession(p, l)

\* the records whose id no record of another file has are stored under their
\* own file's session
UnsharedRecordsUnderOwnSession ==
  runs > 0 =>
    \A p \in Paths : \A l \in RecordsOf(p) :
      (\A q \in Paths \ {p} : \A k \in RecordsOf(q) :
         MessageId(k, extractSessionId(q, FALSE)) # MessageId(l, extractSessionId(p, FALSE)))
        => StoredUnderOwnSession(p, l)

\* a store without the wall-clock readings of its session rows
WithoutWallClock(d) ==
  [sessions |-> {[id |-> s.id, project_path |-> s.project_path, jsonl_path |-> s.jsonl_path,
                  is_active |-> s.is_active, total_messages |-> s.total_messages,
                  total_tool_calls |-> s.total_tool_calls] : s \in d.sessions},
   messages |-> d.messages,
   tool_calls |-> d.tool_calls]

\* the store a one-shot run over the present files leaves, begun on an empty store
OneShotOnEmptyStore ==
  RunQueue("oneshot", Machine(EmptyDb, {}, [p \in Paths |-> 0], Idle, {}, {}),
           ByName(ScanOrder), files, recent, Now, "abort").db

\* C37: run on the same file set against an empty store, the watch service's
\* initial scan and a one-shot run leave the same session rows (is_active and
\* totals included), the same message rows and the same tool-call rows, apart
\* from wall-clock timestamps.
ScanEqualsOneShot ==
  (wpc = "watching" /\ runs = 0) =>
    WithoutWallClock(db) = WithoutWallClock(OneShotOnEmptyStore)

\* the two agree on the message rows and the tool-call rows when no line of
\* the file makes the parser raise
ScanEqualsOneShotOnRecords ==
  (wpc = "watching" /\ runs = 0 /\ WellShaped(files[F1])) =>
    /\ db.messages = OneShotOnEmptyStore.messages
    /\ db.tool_calls = OneShotOnEmptyStore.tool_calls

\* the session rows of file p in a store, without wall-clock readings
SessionRowsOf(d, p) ==
  {s \in WithoutWallClock(d).sessions : s.id = extractSessionId(p, FALSE)}

\* the two agree on the session row of a file that is not empty and was
\* modified within the last 5 minutes
ScanEqualsOneShotOnRecentFile ==
  (wpc = "watching" /\ runs = 0 /\ files[F1] # <<>> /\ recent[F1]) =>
    SessionRowsOf(db, F1) = SessionRowsOf(OneShotOnEmptyStore, F1)

\* the ids of the tool calls of an update
IdsOf(update) == {update[i].id : i \in 1..Len(update)}

\* C38: at each poll where the tool-call row count has grown since the last
\* broadcast, the update sent holds exactly the tool-call rows inserted since
\* the previous broadcast (each inserted tool call is broadcast once and none
\* twice), and the remembered count afterwards equals the current row count and
\* never decreases.
BroadcastsNewToolCalls ==
  [][(ServerPoll /\ Cardinality(db.tool_calls) > server.lastToolCallCount) =>
       /\ IdsOf(server'.updates[Len(server'.updates)])
            = {t.id : t \in db.tool_calls} \ server.atBroadcast
       /\ \A i \in 1..Len(server.updates) :
            IdsOf(server.updates[i]) \cap IdsOf(server'.updates[Len(server'.updates)]) = {}
       /\ server'.lastToolCallCount = Cardinality(db'.tool_calls)
       /\ server'.lastToolCallCount >= server.lastToolCallCount]_vars

\* the remembered count equals the row count after every broadcast, never
\* decreases and never exceeds the row count
RememberedCount ==
  [][/\ server'.lastToolCallCount >= server.lastToolCallCount
     /\ server'.lastToolCallCount <= Cardinality(db'.tool_calls)
     /\ (ServerPoll /\ Cardinality(db.tool_calls) > server.lastToolCallCount)
          => server'.lastToolCallCount = Cardinality(db'.tool_calls)]_vars

====
